---- MODULE Spec2Model ----
(***************************************************************************)
(* Model of the AgenteAI realtime demo: the WebSocket connection endpoint  *)
(* of the server (message dispatch, tool loop, response streamer), the      *)
(* reconnect loop of the browser client, its sendMessage with the local   *)
(* simulation of the tools, and its handler of the frames of the server   *)
(* with the metrics of the session.                                       *)
(*                                                                         *)
(* A JavaScript string is a sequence of atoms.  An atom is a piece of text *)
(* without a space in it, or the single space SP; a number is rendered as  *)
(* its decimal digits; an emoji is written as its name in parentheses.    *)
(* One action is the code a handler runs between two awaits.              *)
(***************************************************************************)
EXTENDS Integers, Sequences, FiniteSets, TLC

\* ------------------------------------------------------------------------
\* Bounds of the model
\* ------------------------------------------------------------------------
MaxLen == 5        \* longest string handed to streamResponse on its own
MaxTurns == 2      \* message frames accepted on one connection
MaxAttempts == 14  \* sockets the client creates

\* ------------------------------------------------------------------------
\* Strings
\* ------------------------------------------------------------------------
SP == " "

\* all strings over the atoms of A with at most n atoms
RECURSIVE StringsUpTo(_, _)
StringsUpTo(A, n) ==
    IF n = 0 THEN {<<>>}
    ELSE LET S == StringsUpTo(A, n - 1)
         IN  S \cup {Append(s, a) : s \in {t \in S : Len(t) = n - 1}, a \in A}

\* String.prototype.split(' '): one piece per separator plus one, empty
\* pieces kept, "".split(' ') = [""]
Split(s) ==
    LET seps == {i \in 1..Len(s) : s[i] = SP}
        \* the position of the n-th separator; 0 and Len(s) + 1 bound the string
        sep(n) == IF n = 0 THEN 0
                  ELSE IF n > Cardinality(seps) THEN Len(s) + 1
                  ELSE CHOOSE i \in seps : Cardinality({j \in seps : j <= i}) = n
    IN  [n \in 1..(Cardinality(seps) + 1) |-> SubSeq(s, sep(n - 1) + 1, sep(n) - 1)]

\* concatenation of a sequence of strings
RECURSIVE Concat(_)
Concat(ss) == IF ss = <<>> THEN <<>> ELSE Head(ss) \o Concat(Tail(ss))

\* number of separators in a string
NumSpaces(s) == Cardinality({i \in 1..Len(s) : s[i] = SP})

\* Number -> decimal digits (template literal interpolation of a number)
Digit(d) == CASE d = 0 -> "0" [] d = 1 -> "1" [] d = 2 -> "2" [] d = 3 -> "3"
              [] d = 4 -> "4" [] d = 5 -> "5" [] d = 6 -> "6" [] d = 7 -> "7"
              [] d = 8 -> "8" [] d = 9 -> "9"
RECURSIVE NumberToString(_)
NumberToString(n) == IF n < 10 THEN <<Digit(n)>> ELSE NumberToString(n \div 10) \o <<Digit(n % 10)>>

\* String.prototype.trim()
RECURSIVE TrimLeft(_)
TrimLeft(s) == IF s # <<>> /\ Head(s) = SP THEN TrimLeft(Tail(s)) ELSE s
RECURSIVE TrimRight(_)
TrimRight(s) ==
    IF s # <<>> /\ s[Len(s)] = SP THEN TrimRight(SubSeq(s, 1, Len(s) - 1)) ELSE s
Trim(s) == TrimRight(TrimLeft(s))

\* ------------------------------------------------------------------------
\* Outbound frames (WebSocketServerMessage)
\* ------------------------------------------------------------------------
StatusFrame(st, text) == [type |-> "status", status |-> st, content |-> text]
StatusOnly(st) == [type |-> "status", status |-> st]
ChunkFrame(c) == [type |-> "chunk", chunk |-> c]
ToolCallFrame(tool) == [type |-> "tool_call", toolName |-> tool]
ToolResultFrame(tool, res) == [type |-> "tool_result", toolName |-> tool, toolResult |-> res]
\* a response frame that reports no tools
ResponseFrameNoTools(text, tools) ==
    [type |-> "response", content |-> text,
     metadata |-> [toolsUsed |-> <<>>, confidence |-> "0.95"]]
\* metadata.latency is a clock reading and is left out
ResponseFrame(text, tools) ==
    [type |-> "response", content |-> text,
     metadata |-> [toolsUsed |-> tools, confidence |-> "0.95"]]
ErrorFrame(e) == [type |-> "error", error |-> e]

IsStatus(f, st) == f.type = "status" /\ f.status = st

\* ------------------------------------------------------------------------
\* streamResponse
\* ------------------------------------------------------------------------
\* a chunk without its separator
ChunkNoSeparator(words, i) == words[i]
\* the chunk of word i: the separator goes back on every word but the last
ChunkOf(words, i) == words[i] \o (IF i < Len(words) THEN <<SP>> ELSE <<>>)

\* String.prototype.includes: contiguous occurrence of sub in s
Includes(s, sub) ==
    \E i \in 1..(Len(s) - Len(sub) + 1) : SubSeq(s, i, i + Len(sub) - 1) = sub

\* String.prototype.toLowerCase, atom by atom
LowerAtom(a) ==
    CASE a = "Calcula" -> "calcula"
      [] a = "Clima" -> "clima"
      [] a = "Madrid" -> "madrid"
      [] a = "MADRID" -> "madrid"
      [] a = "Valencia" -> "valencia"
      [] a = "Sevilla" -> "sevilla"
      [] a = "CDMX" -> "cdmx"
      [] a = "Ciudad" -> "ciudad"
      [] a = "Mexico" -> "mexico"
      [] a = "México" -> "méxico"
      [] a = "Guadalajara" -> "guadalajara"
      [] a = "Cancun" -> "cancun"
      [] a = "Cancún" -> "cancún"
      [] a = "Puebla" -> "puebla"
      [] a = "Merida" -> "merida"
      [] a = "Mérida" -> "mérida"
      [] a = "Paris" -> "paris"
      [] a = "Bitcoin" -> "bitcoin"
      [] a = "Parcialmente" -> "parcialmente"
      [] a = "Soleado" -> "soleado"
      [] a = "Despejado" -> "despejado"
      [] a = "Variable" -> "variable"
      [] OTHER -> a
toLowerCase(s) == [i \in 1..Len(s) |-> LowerAtom(s[i])]

IsDigit(a) == a \in {"0", "1", "2", "3", "4", "5", "6", "7", "8", "9"}
IsOperator(a) == a \in {"+", "-", "*", "/"}

\* /\d+\s*[\+\-\*\/]\s*\d+/.test(s): digit, spaces, operator, spaces, digit
MatchesArithmetic(s) ==
    \E i, j, k \in 1..Len(s) :
        /\ i < j /\ j < k
        /\ IsDigit(s[i]) /\ IsOperator(s[j]) /\ IsDigit(s[k])
        /\ \A m \in (i + 1)..(k - 1) : m = j \/ s[m] = SP

\* ------------------------------------------------------------------------
\* Tool dispatcher of the server
\* ------------------------------------------------------------------------
analyzeToolNeeds(message) ==
    LET lowerMessage == toLowerCase(message)
        weather == IF \/ Includes(lowerMessage, <<"tiempo">>)
                      \/ Includes(lowerMessage, <<"clima">>)
                      \/ Includes(lowerMessage, <<"temperatura">>)
                   THEN <<"weather">> ELSE <<>>
        calculator == IF \/ Includes(lowerMessage, <<"calcula">>)
                         \/ Includes(lowerMessage, <<"%">>)
                         \/ MatchesArithmetic(message)
                      THEN <<"calculator">> ELSE <<>>
        web_search == IF \/ Includes(lowerMessage, <<"busca">>)
                         \/ Includes(lowerMessage, <<"información">>)
                         \/ Includes(lowerMessage, <<"precio">>)
                      THEN <<"web_search">> ELSE <<>>
    IN  weather \o calculator \o web_search

cities ==
    << <<"madrid">>, <<"barcelona">>, <<"valencia">>, <<"cdmx">>,
       <<"ciudad", SP, "de", SP, "méxico">>, <<"guadalajara">>, <<"monterrey">> >>

NoLocation == <<>>

\* first city of the list that occurs in the lowercased message, else null
extractLocation(message) ==
    LET lowerMessage == toLowerCase(message)
        hits == {c \in 1..Len(cities) : Includes(lowerMessage, cities[c])}
    IN  IF hits = {} THEN NoLocation
        ELSE cities[CHOOSE c \in hits : \A d \in hits : c <= d]

WeatherRecord(loc, temp, cond, desc, hum, wnd, feels) ==
    [location |-> loc, temperature |-> temp, condition |-> cond,
     description |-> desc, humidity |-> hum, wind |-> wnd, feelsLike |-> feels]

getSimulatedWeather(location) ==
    LET key == toLowerCase(location)
        nublado == <<"parcialmente", SP, "nublado">>
        despejado == <<"cielo", SP, "despejado">>
        mexico == <<"Ciudad", SP, "de", SP, "México">>
    IN  CASE key = <<"madrid">> ->
               WeatherRecord(<<"Madrid">>, 18, "Clouds", nublado, 65, 12, 17)
          [] key = <<"barcelona">> ->
               WeatherRecord(<<"Barcelona">>, 22, "Clear", despejado, 58, 8, 21)
          [] key = <<"valencia">> ->
               WeatherRecord(<<"Valencia">>, 20, "Clear", despejado, 62, 10, 19)
          [] key = <<"cdmx">> ->
               WeatherRecord(mexico, 24, "Clouds", nublado, 45, 10, 23)
          [] key = <<"ciudad", SP, "de", SP, "mexico">> ->
               WeatherRecord(mexico, 24, "Clouds", nublado, 45, 10, 23)
          [] OTHER ->
               WeatherRecord(location, 16, "Clear",
                             <<"condiciones", SP, "variables">>, 60, 15, 15)

\* what the OpenWeatherMap call can come back with
NoUpstream == [kind |-> "none"]

Upstream ==
    { [kind |-> "nokey"], [kind |-> "status"], [kind |-> "neterror"],
      [kind |-> "notjson"], [kind |-> "badpayload"],
      [kind |-> "ok",
       data |-> WeatherRecord(<<"Madrid">>, 21, "Clear",
                              <<"cielo", SP, SP, "claro">>, 40, 7, 20)],
      [kind |-> "ok",
       data |-> WeatherRecord(<<"undefined">>, 21, "Clear",
                              <<"cielo", SP, SP, "claro">>, 40, 7, 20)] }

\* the outcome of a call: the value it returned, or a throw
Returned(v) == [threw |-> FALSE, value |-> v]
Thrown == [threw |-> TRUE]

\* a fetchWeatherData without its try block and its checks
fetchWeatherDataNoCatch(location, up) ==
    IF up.kind = "ok" THEN up.data ELSE Thrown

\* fetchWeatherData(location): without a key, on a status that is not ok, on
\* a rejected fetch or json(), and on a payload whose fields cannot be read
\* (a TypeError) the table answers; a payload that can be read is passed on
fetchWeatherData(location, up) ==
    IF up.kind = "ok" THEN up.data ELSE getSimulatedWeather(location)

\* executeTool(toolName, message); up is the outcome of the upstream call
executeTool(toolName, message, up) ==
    CASE toolName = "weather" ->
           LET found == extractLocation(message)
               location == IF found = NoLocation THEN <<"Madrid">> ELSE found
           IN  fetchWeatherData(location, up)
      [] toolName = "calculator" ->
           [result |-> <<"Resultado", SP, "del", SP, "cálculo">>,
            explanation |-> <<"Cálculo", SP, "realizado">>]
      [] toolName = "web_search" ->
           [results |-> << <<"Resultado", SP, "1">>, <<"Resultado", SP, "2">> >>,
            summary |-> <<"Búsqueda", SP, "realizada">>]

\* index of a tool in the list of tools used, 0 when it was not used
IndexOf(tools, tool) ==
    IF \E i \in 1..Len(tools) : tools[i] = tool
    THEN CHOOSE i \in 1..Len(tools) : tools[i] = tool
    ELSE 0

\* generateResponse(message, toolResults, toolsUsed); results[i] is the
\* result stored under toolsUsed[i]
generateResponse(message, results, toolsUsed) ==
    LET has(tool) == IndexOf(toolsUsed, tool) # 0
        res(tool) == results[IndexOf(toolsUsed, tool)]
        w == res("weather")
        weather ==
            IF has("weather")
            THEN <<"(sun)", SP, "En", SP>> \o w.location \o <<SP, "está", SP>>
                 \o w.description \o <<SP, "con", SP>> \o NumberToString(w.temperature)
                 \o <<"°C", SP, "(sensación", SP, "térmica:", SP>>
                 \o NumberToString(w.feelsLike) \o <<"°C).", SP>>
                 \o <<"Humedad:", SP>> \o NumberToString(w.humidity) \o <<"%,", SP, "Viento:", SP>>
                 \o NumberToString(w.wind) \o <<SP, "km/h.", SP>>
            ELSE <<>>
        calculator ==
            IF has("calculator")
            THEN <<"(abacus)", SP>> \o res("calculator").explanation \o <<SP>>
            ELSE <<>>
        web_search ==
            IF has("web_search")
            THEN <<"(lens)", SP>> \o res("web_search").summary \o <<SP>>
            ELSE <<>>
        response == weather \o calculator \o web_search
    IN  IF response = <<>>
        THEN <<"He", SP, "recibido", SP, "tu", SP, "mensaje.", SP,
               "¿En", SP, "qué", SP, "más", SP, "puedo", SP, "ayudarte?">>
        ELSE Trim(response)

\* ------------------------------------------------------------------------
\* State
\* ------------------------------------------------------------------------
VARIABLES
    config,        \* server: the connection's RealtimeConfig (closure variable)
    wsOpen,        \* server: ws.readyState === WebSocket.OPEN
    turns,         \* server: one record per handleTextMessage call, in arrival order
    ev,            \* the inbound frame handled last
    out,           \* the frames its handler put on the wire before its first await
    down,          \* the frames that have reached the client and wait for onmessage
    sr,            \* a streamResponse call on its own
    useWebSocket,  \* client: the "use the realtime channel" flag
    socks,         \* client: every WebSocket created so far; this.ws is the last
    timers,        \* client: pending reconnect timers
    scheduled,     \* client: number of reconnect timers ever set
    connectionStatus, \* client: what updateConnectionStatus showed last
    local          \* client: the send box, sendMessage and the local simulation

serverVars == <<config, wsOpen, turns, ev, out, down>>
clientVars == <<useWebSocket, socks, timers, scheduled, connectionStatus, local>>
vars == <<config, wsOpen, turns, ev, out, down, sr, clientVars>>

\* ------------------------------------------------------------------------
\* Inbound frames
\* ------------------------------------------------------------------------
Text(t) == [kind |-> "string", text |-> t]

\* content of a message frame: a text that selects two tools, no content at
\* all (the reply is then the canned one), and a truthy value that is no string
Contents ==
    { Text(<<"Calcula", SP, "2", "+", "2", SP, "y", SP, "busca", SP, "precio">>),
      [kind |-> "absent"],
      [kind |-> "number"] }

ConfigUpdates ==
    { [streamingEnabled |-> FALSE],
      [streamingEnabled |-> TRUE, audioEnabled |-> FALSE, language |-> "es"] }

ClientMessages ==
    {[type |-> "message", content |-> c] : c \in Contents}
    \cup {[type |-> "config", config |-> u] : u \in ConfigUpdates}
    \cup { [type |-> "config"], [type |-> "audio", audioData |-> "base64"],
           [type |-> "interrupt"], [type |-> "ping"] }

\* the raw data of a frame: text that is not JSON, or a message in JSON
Inbound ==
    {[json |-> FALSE]} \cup {[json |-> TRUE, msg |-> m] : m \in ClientMessages}

\* JSON.parse(data): does it throw?
ParseThrows(data) == ~data.json

\* message.type, undefined when the frame has no such field
TagOf(msg) == IF "type" \in DOMAIN msg THEN msg.type ELSE "undefined"

\* message.content || ''
ContentOrEmpty(msg) ==
    IF "content" \notin DOMAIN msg \/ msg.content.kind = "absent"
    THEN Text(<<>>) ELSE msg.content

\* config = message.config
SpreadReplaces(cfg, upd) == upd
\* { ...config, ...message.config }
Spread(cfg, upd) ==
    [f \in DOMAIN cfg \cup DOMAIN upd |-> IF f \in DOMAIN upd THEN upd[f] ELSE cfg[f]]

InitialConfig ==
    [streamingEnabled |-> TRUE, audioEnabled |-> FALSE,
     interruptible |-> TRUE, language |-> "es"]

\* sendMessage(ws, message): sent only while the socket is open
Emit(log, frames) == IF wsOpen THEN log \o frames ELSE log

\* ------------------------------------------------------------------------
\* streamResponse, one loop iteration per step; words is response.split(' ')
\* and i chunks are already sent
\* ------------------------------------------------------------------------
streamStep(words, i) ==
    IF i < Len(words)
    THEN [i |-> i + 1, frames |-> <<ChunkFrame(ChunkOf(words, i + 1))>>,
          returned |-> FALSE]
    ELSE [i |-> i, frames |-> <<StatusFrame("listening", "Listo")>>,
          returned |-> TRUE]

\* ------------------------------------------------------------------------
\* handleTextMessage, cut at its awaits
\* ------------------------------------------------------------------------
Listening == StatusFrame("listening", "Escuchando...")

\* the response sent ahead of the "responding" status
AfterToolsRespondingLate(tr) ==
    LET response == generateResponse(tr.content.text, tr.results, tr.tools)
        responding == <<StatusFrame("responding", "Generando respuesta...")>>
    IN  IF tr.cfg.streamingEnabled
        THEN LET words == Split(response)
                 s == streamStep(words, 0)
             IN  [tr |-> [tr EXCEPT !.pc = "stream", !.response = response,
                                    !.words = words, !.i = s.i],
                  frames |-> s.frames \o responding]
        ELSE [tr |-> [tr EXCEPT !.pc = "done", !.response = response],
              frames |-> <<ResponseFrame(response, tr.tools)>> \o responding \o <<Listening>>]

\* from "Generar respuesta" to the first await of streamResponse, or to the end
AfterTools(tr) ==
    LET response == generateResponse(tr.content.text, tr.results, tr.tools)
        responding == <<StatusFrame("responding", "Generando respuesta...")>>
    IN  IF tr.cfg.streamingEnabled
        THEN LET words == Split(response)
                 s == streamStep(words, 0)
             IN  [tr |-> [tr EXCEPT !.pc = "stream", !.response = response,
                                    !.words = words, !.i = s.i],
                  frames |-> responding \o s.frames]
        ELSE [tr |-> [tr EXCEPT !.pc = "done", !.response = response],
              frames |-> responding \o <<ResponseFrame(response, tr.tools), Listening>>]

\* a handleTextMessage without its try block: the failure reaches the catch
\* block of the frame handler
HandleStartUncaught(content, cfg) ==
    LET tr0 == [content |-> content, cfg |-> cfg, pc |-> "start", tools |-> <<>>,
                k |-> 0, results |-> <<>>, response |-> <<>>, words |-> <<>>,
                i |-> 0, sent |-> <<>>, ups |-> <<>>]
        processing == <<StatusFrame("processing", "Analizando mensaje...")>>
    IN  IF content.kind # "string"
        THEN [tr |-> [tr0 EXCEPT !.pc = "failed"],
              frames |-> processing \o <<ErrorFrame("Error al procesar el mensaje")>>]
        ELSE LET toolsNeeded == analyzeToolNeeds(content.text)
                 tr1 == [tr0 EXCEPT !.tools = toolsNeeded]
             IN  IF toolsNeeded # <<>>
                 THEN [tr |-> [tr1 EXCEPT !.pc = "tool", !.k = 1],
                       frames |-> processing \o <<ToolCallFrame(toolsNeeded[1])>>]
                 ELSE LET a == AfterTools(tr1)
                      IN  [tr |-> a.tr, frames |-> processing \o a.frames]
\* from the call to the first await
HandleStart(content, cfg) ==
    LET tr0 == [content |-> content, cfg |-> cfg, pc |-> "start", tools |-> <<>>,
                k |-> 0, results |-> <<>>, response |-> <<>>, words |-> <<>>,
                i |-> 0, sent |-> <<>>, ups |-> <<>>]
        processing == <<StatusFrame("processing", "Analizando mensaje...")>>
    IN  IF content.kind # "string"
        THEN \* message.toLowerCase is not a function: the catch block
             [tr |-> [tr0 EXCEPT !.pc = "failed"],
              frames |-> processing \o <<ErrorFrame("Error procesando tu mensaje"),
                                         StatusOnly("ready")>>]
        ELSE LET toolsNeeded == analyzeToolNeeds(content.text)
                 tr1 == [tr0 EXCEPT !.tools = toolsNeeded]
             IN  IF toolsNeeded # <<>>
                 THEN [tr |-> [tr1 EXCEPT !.pc = "tool", !.k = 1],
                       frames |-> processing \o <<ToolCallFrame(toolsNeeded[1])>>]
                 ELSE LET a == AfterTools(tr1)
                      IN  [tr |-> a.tr, frames |-> processing \o a.frames]

\* a tool loop that sends no tool_result frame
HandleToolResultNoFrame(tr, result) ==
    LET tr1 == [tr EXCEPT !.results = Append(@, result)]
    IN  IF tr.k < Len(tr.tools)
        THEN [tr |-> [tr1 EXCEPT !.k = tr.k + 1],
              frames |-> <<ToolCallFrame(tr.tools[tr.k + 1])>>]
        ELSE AfterTools(tr1)
\* executeTool has returned result for tools[k]
HandleToolResult(tr, result) ==
    LET tool == tr.tools[tr.k]
        tr1 == [tr EXCEPT !.results = Append(@, result)]
        done == <<ToolResultFrame(tool, result)>>
    IN  IF "threw" \in DOMAIN result
        THEN \* executeTool threw: the catch block
             [tr |-> [tr EXCEPT !.pc = "failed"],
              frames |-> <<ErrorFrame("Error procesando tu mensaje"), StatusOnly("ready")>>]
        ELSE IF tr.k < Len(tr.tools)
        THEN [tr |-> [tr1 EXCEPT !.k = tr.k + 1],
              frames |-> done \o <<ToolCallFrame(tr.tools[tr.k + 1])>>]
        ELSE LET a == AfterTools(tr1)
             IN  [tr |-> a.tr, frames |-> done \o a.frames]

\* a streamResponse whose promise is never resolved
HandleTimerNeverResolves(tr) ==
    LET s == streamStep(tr.words, tr.i)
    IN  IF s.returned
        THEN [tr |-> tr, frames |-> <<>>]
        ELSE [tr |-> [tr EXCEPT !.i = s.i], frames |-> s.frames]
\* the streaming timer has fired
HandleTimer(tr) ==
    LET s == streamStep(tr.words, tr.i)
    IN  IF s.returned
        THEN [tr |-> [tr EXCEPT !.pc = "done"], frames |-> s.frames \o <<Listening>>]
        ELSE [tr |-> [tr EXCEPT !.i = s.i], frames |-> s.frames]

\* turn tr is inside streamResponse and has words left to send
ChunksToCome(tr) == tr.pc = "stream" /\ tr.i < Len(tr.words)

Commit(step) == [step.tr EXCEPT !.sent = Emit(@, step.frames)]

\* kind: which branch of the handler ran; turn: the turn a message frame
\* started, or the turns an interrupt frame found with chunks still to send
Event(kind, turn, tag) == [kind |-> kind, turn |-> turn, tag |-> tag]

Streaming(ts) == {t \in 1..Len(ts) : ChunksToCome(ts[t])}

Welcome == StatusFrame("ready", "Conexión establecida. Escuchando...")

SrIdle == [pc |-> "idle", response |-> <<>>, words |-> <<>>, i |-> 0, sent |-> <<>>]

\* wss.on('connection'): the session is created and the welcome frame sent
InitServer ==
    /\ config = InitialConfig
    /\ wsOpen = TRUE
    /\ turns = <<>>
    /\ ev = Event("connection", 0, "")
    /\ out = <<Welcome>>
    /\ down = <<>>

\* the four tools of DemoToolSimulator, in the order of its map
ToolNames == <<"web_search", "calculator", "weather", "currency">>

\* DemoRealtimeAgent and its DemoToolSimulator after construction: nothing
\* typed, no call of sendMessage running, every tool ready.  queue is what
\* the user is going to type and send, handled the route each accepted
\* message took, wire the frames given to ws.send, peak the largest number
\* of tools that were active together, lastEval what eval did in the last
\* calculator call, dropped the texts submitted while isProcessing was true,
\* streamingDiv whether the page has the element 'streaming-message', age
\* the whole seconds since sessionStartTime
InitialMetrics ==
    [latency |-> 0, toolsCount |-> 0, messageCount |-> 0, sessionDuration |-> 0,
     toolsUsed |-> 0]

LocalIdle ==
    [queue |-> <<>>, isProcessing |-> FALSE, pc |-> "idle", content |-> <<>>,
     tools |-> <<>>, k |-> 0,
     status |-> [t \in {ToolNames[n] : n \in 1..Len(ToolNames)} |-> "ready"],
     peak |-> 0, results |-> <<>>, lastEval |-> [kind |-> "none"], response |-> <<>>,
     messages |-> <<>>, handled |-> <<>>, wire |-> <<>>, ignored |-> 0,
     dropped |-> <<>>, currentStreamingMessage |-> <<>>, streamingDiv |-> FALSE,
     metrics |-> InitialMetrics, age |-> 0]

\* the client before its page is opened
ClientIdle ==
    /\ useWebSocket = TRUE
    /\ socks = <<>>
    /\ timers = <<>>
    /\ scheduled = 0
    /\ connectionStatus = "connected"
    /\ local = LocalIdle

Init == InitServer /\ sr = SrIdle /\ ClientIdle

\* ------------------------------------------------------------------------
\* ws.on('message'): the handler up to its first await
\* ------------------------------------------------------------------------
\* a catch block that only logs
CatchSilent == <<>>
\* the catch block of the handler
CatchFrames == <<ErrorFrame("Error al procesar el mensaje")>>
AudioFrames == <<ErrorFrame("Procesamiento de audio no implementado aún")>>
InterruptFrames == <<StatusFrame("ready", "Procesamiento interrumpido")>>
\* a switch without a default branch
UnknownTagSilent(tag) == <<>>
UnknownTagFrames(tag) ==
    <<ErrorFrame(<<"Tipo", SP, "de", SP, "mensaje", SP, "no", SP, "reconocido:", SP, tag>>)>>

\* an interrupt frame that ends the streams in flight
InterruptCancelsStream(ts) ==
    [t \in 1..Len(ts) |-> IF ts[t].pc = "stream" THEN [ts[t] EXCEPT !.pc = "done"] ELSE ts[t]]
\* what the interrupt branch does to the turns in flight: nothing
OnInterrupt(ts) == ts

Handle(data) ==
    /\ wsOpen
    /\ UNCHANGED <<wsOpen, sr, clientVars>>
    /\ IF ParseThrows(data)
       THEN /\ out' = Emit(<<>>, CatchFrames)
            /\ ev' = Event("malformed", 0, "")
            /\ UNCHANGED <<config, turns>>
       ELSE LET message == data.msg
                tag == TagOf(message)
            IN  CASE tag = "message" ->
                       LET step == HandleStart(ContentOrEmpty(message), config)
                       IN  /\ Len(turns) < MaxTurns
                           /\ turns' = Append(turns, Commit(step))
                           /\ out' = Emit(<<>>, step.frames)
                           /\ ev' = Event("message", Len(turns) + 1, tag)
                           /\ UNCHANGED config
                  [] tag = "audio" ->
                       /\ out' = Emit(<<>>, AudioFrames)
                       /\ ev' = Event("audio", 0, tag)
                       /\ UNCHANGED <<config, turns>>
                  [] tag = "interrupt" ->
                       /\ out' = Emit(<<>>, InterruptFrames)
                       /\ ev' = Event("interrupt", Streaming(turns), tag)
                       /\ turns' = OnInterrupt(turns)
                       /\ UNCHANGED config
                  [] tag = "config" ->
                       /\ config' = IF "config" \in DOMAIN message
                                    THEN Spread(config, message.config) ELSE config
                       /\ out' = <<>>
                       /\ ev' = Event("config", 0, tag)
                       /\ UNCHANGED turns
                  [] OTHER ->
                       /\ out' = Emit(<<>>, UnknownTagFrames(tag))
                       /\ ev' = Event("unknown", 0, tag)
                       /\ UNCHANGED <<config, turns>>

\* the handler, without following its frames to the client
OnMessage(data) == Handle(data) /\ UNCHANGED down

\* what the tool that turn tr waits for can get from the network
UpstreamOf(tr) ==
    IF tr.pc = "tool" /\ tr.tools[tr.k] = "weather" THEN Upstream ELSE {NoUpstream}

\* a turn that reads the configuration of the session when it resumes
ResumeAfterToolLiveConfig(t, up) ==
    /\ turns[t].pc = "tool"
    /\ LET tr == [turns[t] EXCEPT !.cfg = config]
           step == HandleToolResult(tr, executeTool(tr.tools[tr.k], tr.content.text, up))
       IN  turns' = [turns EXCEPT ![t] = [Commit(step) EXCEPT !.ups = Append(@, up)]]
    /\ UNCHANGED <<config, wsOpen, ev, out, sr, clientVars>>
\* the pending executeTool of turn t resolves; up is what the upstream gave
ResumeAfterTool(t, up) ==
    /\ turns[t].pc = "tool"
    /\ LET tr == turns[t]
           step == HandleToolResult(tr, executeTool(tr.tools[tr.k], tr.content.text, up))
       IN  turns' = [turns EXCEPT ![t] = [Commit(step) EXCEPT !.ups = Append(@, up)]]
    /\ UNCHANGED <<config, wsOpen, ev, out, sr, clientVars>>

ToolReturn(t, up) == ResumeAfterTool(t, up) /\ UNCHANGED down

\* the setTimeout of turn t's streamResponse fires
ResumeAfterTimer(t) ==
    /\ turns[t].pc = "stream"
    /\ LET step == HandleTimer(turns[t])
       IN  turns' = [turns EXCEPT ![t] = Commit(step)]
    /\ UNCHANGED <<config, wsOpen, ev, out, sr, clientVars>>

TimerFire(t) == ResumeAfterTimer(t) /\ UNCHANGED down

\* the peer goes away: ws.on('close')
Close ==
    /\ wsOpen
    /\ wsOpen' = FALSE
    /\ UNCHANGED <<config, turns, ev, out, down, sr, clientVars>>

Next ==
    \/ \E data \in Inbound : OnMessage(data)
    \/ \E t \in 1..Len(turns) : \E up \in UpstreamOf(turns[t]) : ToolReturn(t, up)
    \/ \E t \in 1..Len(turns) : TimerFire(t)

Spec == Init /\ [][Next]_vars

\* ------------------------------------------------------------------------
\* The turns of one connection that stays open, with the event loop running
\* ------------------------------------------------------------------------
\* contents of the message frames: a text that asks for the weather, a text
\* that asks for a search, and a value that makes handleTextMessage fail
LiveContents ==
    { Text(<<"clima">>), Text(<<"busca">>), [kind |-> "number"] }

\* turn t waits for the OpenWeatherMap call of fetchWeatherData
WeatherPending(t) ==
    /\ t <= Len(turns)
    /\ turns[t].pc = "tool"
    /\ turns[t].tools[turns[t].k] = "weather"

\* the upstream call of turn t comes back, here with a network error
WeatherReturn(t) ==
    /\ WeatherPending(t)
    /\ ToolReturn(t, [kind |-> "neterror"])

\* turn t waits at the await of a tool that makes no request
LocalToolPending(t) ==
    /\ t <= Len(turns)
    /\ turns[t].pc = "tool"
    /\ ~WeatherPending(t)

\* its promise is already resolved when the await is reached
LocalToolResolves(t) ==
    /\ LocalToolPending(t)
    /\ ToolReturn(t, NoUpstream)

\* the 50 ms timer of streamResponse is due
TimerDue(t) == t <= Len(turns) /\ TimerFire(t)

NextLive ==
    \/ \E c \in LiveContents :
          OnMessage([json |-> TRUE, msg |-> [type |-> "message", content |-> c]])
    \/ \E t \in 1..MaxTurns : WeatherReturn(t)
    \/ \E t \in 1..MaxTurns : LocalToolResolves(t)
    \/ \E t \in 1..MaxTurns : TimerDue(t)

\* the event loop runs every timer that is due and resumes every await whose
\* promise is resolved, so that no turn stays at such an await for ever;
\* nothing makes the upstream answer
Fairness ==
    \A t \in 1..MaxTurns :
        /\ WF_vars(TimerDue(t))
        /\ []<>~LocalToolPending(t)

SpecLive == Init /\ [][NextLive]_vars /\ Fairness

\* ------------------------------------------------------------------------
\* streamResponse called on its own with an arbitrary string
\* ------------------------------------------------------------------------
StreamInputs == StringsUpTo({"a", SP}, MaxLen)

InitStream ==
    /\ InitServer
    /\ \E r \in StreamInputs :
          sr = [pc |-> "call", response |-> r, words |-> <<>>, i |-> 0, sent |-> <<>>]
    /\ ClientIdle

StreamStep ==
    /\ sr.pc \in {"call", "stream"}
    /\ LET words == IF sr.pc = "call" THEN Split(sr.response) ELSE sr.words
           s == streamStep(words, sr.i)
       IN  sr' = [sr EXCEPT !.pc = IF s.returned THEN "done" ELSE "stream",
                            !.words = words,
                            !.i = s.i,
                            !.sent = Emit(@, s.frames)]
    /\ UNCHANGED <<config, turns, ev, out, down, clientVars>>
    /\ UNCHANGED wsOpen

NextStream ==
    \/ StreamStep
    \/ Close

SpecStream == InitStream /\ [][NextStream]_vars

\* ------------------------------------------------------------------------
\* Client: DemoRealtimeAgent.initializeWebSocket and its socket handlers
\* ------------------------------------------------------------------------
ReconnectDelay == 3000

\* a socket is connecting, open, failing (its error event has fired and its
\* close event is due) or closed
Live(s) == s \in {"connecting", "open", "failing"}

NumClosed == Cardinality({n \in 1..Len(socks) : socks[n] = "closed"})

\* initializeWebSocket(): throws says whether new WebSocket(wsUrl) threw
initializeWebSocket(throws) ==
    IF throws
    THEN /\ connectionStatus' = "disconnected"
         /\ useWebSocket' = FALSE
         /\ UNCHANGED socks
    ELSE /\ socks' = Append(socks, "connecting")
         /\ UNCHANGED <<useWebSocket, connectionStatus>>

\* the constructor has run: showWelcomeMessage, then initializeWebSocket
Constructed ==
    /\ timers = <<>>
    /\ scheduled = 0
    /\ \E throws \in BOOLEAN :
          IF throws
          THEN useWebSocket = FALSE /\ socks = <<>> /\ connectionStatus = "disconnected"
          ELSE useWebSocket = TRUE /\ socks = <<"connecting">> /\ connectionStatus = "connected"

InitClient ==
    /\ InitServer
    /\ sr = SrIdle
    /\ Constructed
    /\ local = LocalIdle

\* ws.onopen
SocketOpen(n) ==
    /\ socks[n] = "connecting"
    /\ socks' = [socks EXCEPT ![n] = "open"]
    /\ connectionStatus' = "connected"
    /\ UNCHANGED <<useWebSocket, timers, scheduled, serverVars, sr, local>>

\* an error handler that schedules a reconnect of its own
onerrorTimersReconnect(ts) == Append(ts, [delay |-> ReconnectDelay, elapsed |-> 0])
\* the timers an error event leaves behind: it sets none
onerrorTimers(ts) == ts

\* ws.onerror; the browser fires close after it
SocketError(n) ==
    /\ socks[n] \in {"connecting", "open"}
    /\ socks' = [socks EXCEPT ![n] = "failing"]
    /\ connectionStatus' = "disconnected"
    /\ timers' = onerrorTimers(timers)
    /\ scheduled' = scheduled + (Len(timers') - Len(timers))
    /\ UNCHANGED <<useWebSocket, serverVars, sr, local>>

\* a close handler that sets no timer
oncloseTimersNone(ts) == ts
\* the timers a close event leaves behind: setTimeout(..., 3000)
oncloseTimers(ts) == Append(ts, [delay |-> ReconnectDelay, elapsed |-> 0])

\* ws.onclose
SocketClose(n) ==
    /\ Live(socks[n])
    /\ socks' = [socks EXCEPT ![n] = "closed"]
    /\ connectionStatus' = "disconnected"
    /\ timers' = oncloseTimers(timers)
    /\ scheduled' = scheduled + (Len(timers') - Len(timers))
    /\ UNCHANGED <<useWebSocket, serverVars, sr, local>>

\* a second goes by
ClockTick ==
    /\ \E j \in 1..Len(timers) : timers[j].elapsed < timers[j].delay
    /\ timers' = [j \in 1..Len(timers) |->
                    IF timers[j].elapsed < timers[j].delay
                    THEN [timers[j] EXCEPT !.elapsed = @ + 1000] ELSE timers[j]]
    /\ UNCHANGED <<useWebSocket, socks, scheduled, connectionStatus, serverVars, sr, local>>

RemoveAt(seq, j) == SubSeq(seq, 1, j - 1) \o SubSeq(seq, j + 1, Len(seq))

\* the callback of a reconnect timer runs
ReconnectTimer(j, throws) ==
    /\ timers[j].elapsed >= timers[j].delay
    /\ Len(socks) < MaxAttempts
    /\ timers' = RemoveAt(timers, j)
    /\ IF useWebSocket
       THEN initializeWebSocket(throws)
       ELSE UNCHANGED <<useWebSocket, socks, connectionStatus>>
    /\ UNCHANGED <<scheduled, serverVars, sr, local>>

NextClient ==
    \/ \E n \in 1..Len(socks) : SocketOpen(n)
    \/ \E n \in 1..Len(socks) : SocketError(n)
    \/ \E n \in 1..Len(socks) : SocketClose(n)
    \/ ClockTick
    \/ \E j \in 1..Len(timers), throws \in BOOLEAN : ReconnectTimer(j, throws)

SpecClient == InitClient /\ [][NextClient]_vars

\* ------------------------------------------------------------------------
\* Numbers: a decimal m / 10^e, kept in lowest form.  JavaScript computes in
\* binary64; the model computes in exact decimals and says where the two
\* can differ (Tie, Exact).
\* ------------------------------------------------------------------------
RECURSIVE Pow10(_)
Pow10(n) == IF n = 0 THEN 1 ELSE 10 * Pow10(n - 1)

RECURSIVE Norm(_, _)
Norm(m, e) == IF e > 0 /\ m % 10 = 0 THEN Norm(m \div 10, e - 1) ELSE [m |-> m, e |-> e]

DigitValue(a) ==
    CASE a = "0" -> 0 [] a = "1" -> 1 [] a = "2" -> 2 [] a = "3" -> 3 [] a = "4" -> 4
      [] a = "5" -> 5 [] a = "6" -> 6 [] a = "7" -> 7 [] a = "8" -> 8 [] a = "9" -> 9

RECURSIVE ToNat(_)
ToNat(ds) == IF ds = <<>> THEN 0 ELSE 10 * ToNat(SubSeq(ds, 1, Len(ds) - 1)) + DigitValue(ds[Len(ds)])

\* the digits of n, at least w of them
RECURSIVE Padded(_, _)
Padded(n, w) ==
    IF w <= 1 /\ n < 10 THEN <<Digit(n)>> ELSE Padded(n \div 10, w - 1) \o <<Digit(n % 10)>>

Abs(n) == IF n < 0 THEN -n ELSE n

\* Number.prototype.toString of a decimal
DecimalToString(x) ==
    LET a == Abs(x.m)
        sign == IF x.m < 0 THEN <<"-">> ELSE <<>>
        whole == Padded(a \div Pow10(x.e), 1)
    IN  IF x.e = 0 THEN sign \o whole
        ELSE sign \o whole \o <<".">> \o Padded(a % Pow10(x.e), x.e)

\* the hundredths nearest to a decimal that is not negative, and whether the
\* decimal lies exactly between two of them
Tie(x) == x.e >= 3 /\ x.m % Pow10(x.e - 2) = 5 * Pow10(x.e - 3)
HundredthsDown(x) == IF x.e <= 2 THEN x.m * Pow10(2 - x.e) ELSE x.m \div Pow10(x.e - 2)
HundredthsNearest(x) ==
    IF x.e >= 3 /\ x.m % Pow10(x.e - 2) >= 5 * Pow10(x.e - 3)
    THEN HundredthsDown(x) + 1 ELSE HundredthsDown(x)

Fixed2(h) == Padded(h \div 100, 1) \o <<".">> \o Padded(h % 100, 2)

\* the strings Number.prototype.toFixed(2) can give for the binary64 nearest
\* to the decimal x: the nearest hundredth; when x is a tie the binary64
\* lies a fraction of an ulp to one side of it, and the digits go that way
toFixed2(x) ==
    IF Tie(x) THEN {Fixed2(HundredthsDown(x)), Fixed2(HundredthsDown(x) + 1)}
    ELSE {Fixed2(HundredthsNearest(x))}

Mul(x, y) == Norm(x.m * y.m, x.e + y.e)
Scaled(x, e) == x.m * Pow10(e - x.e)
MaxE(x, y) == IF x.e > y.e THEN x.e ELSE y.e
Add(x, y) == Norm(Scaled(x, MaxE(x, y)) + Scaled(y, MaxE(x, y)), MaxE(x, y))
Sub(x, y) == Norm(Scaled(x, MaxE(x, y)) - Scaled(y, MaxE(x, y)), MaxE(x, y))

\* ------------------------------------------------------------------------
\* Client: DemoToolSimulator
\* ------------------------------------------------------------------------
\* the words of a phrase with one space between them
RECURSIVE Words(_)
Words(ws) ==
    IF Len(ws) <= 1 THEN ws ELSE <<ws[1], SP>> \o Words(Tail(ws))

\* the position of the first occurrence of sub in s (String.prototype.indexOf)
FirstIndex(s, sub) ==
    CHOOSE i \in 1..Len(s) :
        /\ SubSeq(s, i, i + Len(sub) - 1) = sub
        /\ \A j \in 1..(i - 1) : SubSeq(s, j, j + Len(sub) - 1) # sub

SearchHit(title, url) == [title |-> title, url |-> url]

\* simulateWebSearch(query), after its delay
simulateWebSearch(query) ==
    LET lower == toLowerCase(query)
    IN  IF Includes(lower, <<"bitcoin">>) \/ Includes(lower, <<"btc">>)
        THEN [results |-> << SearchHit(Words(<<"Bitcoin", "Price", "Today">>), <<"coinmarketcap.com">>),
                             SearchHit(Words(<<"Bitcoin", "Analysis">>), <<"coindesk.com">>) >>,
              summary |-> Words(<<"El", "precio", "actual", "de", "Bitcoin", "es", "$43,250",
                                  "USD,", "con", "un", "aumento", "del", "5.2%", "en", "las",
                                  "últimas", "24", "horas.">>)]
        ELSE IF Includes(lower, <<"tiempo">>) \/ Includes(lower, <<"clima">>)
        THEN [results |-> << SearchHit(Words(<<"Weather", "Madrid">>), <<"weather.com">>) >>,
              summary |-> Words(<<"El", "clima", "en", "Madrid", "es", "de", "18°C", "con",
                                  "cielos", "parcialmente", "nublados.">>)]
        ELSE IF Includes(lower, <<"typescript">>) \/ Includes(lower, <<"javascript">>)
        THEN [results |-> << SearchHit(Words(<<"TypeScript", "vs", "JavaScript">>), <<"developer.mozilla.org">>),
                             SearchHit(Words(<<"TypeScript", "Benefits">>), <<"typescriptlang.org">>) >>,
              summary |-> Words(<<"TypeScript", "es", "un", "superset", "de", "JavaScript", "que",
                                  "añade", "tipado", "estático,", "mejorando", "la", "detección",
                                  "de", "errores", "y", "la", "experiencia", "de", "desarrollo.">>)]
        ELSE [results |-> << SearchHit(Words(<<"Resultado", "de", "búsqueda">>), <<"example.com">>) >>,
              summary |-> Words(<<"He", "encontrado", "información", "relevante", "sobre">>)
                          \o <<SP, "\"">> \o query \o <<"\".">>]

\* the characters /[^0-9+\-*/().% ]/g leaves in place
IsAllowed(a) == IsDigit(a) \/ IsOperator(a) \/ a \in {"(", ")", ".", "%", SP}

Sanitize(expression) == SelectSeq(expression, IsAllowed)

\* String.prototype.replace('%', '/100'): the first percent sign only
ReplaceFirstPercent(s) ==
    IF \E i \in 1..Len(s) : s[i] = "%"
    THEN LET i == CHOOSE i \in 1..Len(s) : s[i] = "%" /\ \A j \in 1..(i - 1) : s[j] # "%"
         IN  SubSeq(s, 1, i - 1) \o <<"/", "1", "0", "0">> \o SubSeq(s, i + 1, Len(s))
    ELSE s

\* a decimal literal: digits, or digits "." digits
IsLiteral(ts) ==
    /\ ts # <<>>
    /\ \A i \in 1..Len(ts) : IsDigit(ts[i]) \/ ts[i] = "."
    /\ Cardinality({i \in 1..Len(ts) : ts[i] = "."}) <= 1
    /\ ts[1] # "." /\ ts[Len(ts)] # "."

\* parseFloat of a decimal literal
parseFloat(ts) ==
    LET dots == {i \in 1..Len(ts) : ts[i] = "."}
    IN  IF dots = {} THEN Norm(ToNat(ts), 0)
        ELSE LET d == CHOOSE i \in dots : TRUE
             IN  Norm(ToNat(SubSeq(ts, 1, d - 1) \o SubSeq(ts, d + 1, Len(ts))), Len(ts) - d)

\* x / y when the quotient has at most three decimals
ExactQuotient(x, y) ==
    LET n == x.m * Pow10(y.e)
        d == y.m * Pow10(x.e)
    IN  (n * 1000) % d = 0

Quotient(x, y) == Norm((x.m * Pow10(y.e) * 1000) \div (y.m * Pow10(x.e)), 3)

Value(text) == [kind |-> "value", text |-> text]

\* what eval(code) can do.  A literal and "literal operator literal" are
\* evaluated; code that is empty or blank has the value undefined; code that
\* ends in an operator ("%" is the remainder operator) is a SyntaxError; for
\* any other code eval may throw (a SyntaxError, a TypeError), give
\* undefined (a comment) or give some value
EvalOutcomes(code) ==
    LET t == Trim(code)
        ops == {j \in 1..Len(t) : /\ IsOperator(t[j])
                                  /\ IsLiteral(Trim(SubSeq(t, 1, j - 1)))
                                  /\ IsLiteral(Trim(SubSeq(t, j + 1, Len(t))))}
    IN  IF t = <<>> THEN {[kind |-> "undefined"]}
        ELSE IF IsLiteral(t) THEN {Value(DecimalToString(parseFloat(t)))}
        ELSE IF ops # {}
        THEN LET j == CHOOSE j \in ops : TRUE
                 x == parseFloat(Trim(SubSeq(t, 1, j - 1)))
                 y == parseFloat(Trim(SubSeq(t, j + 1, Len(t))))
             IN  CASE t[j] = "+" -> {Value(DecimalToString(Add(x, y)))}
                   [] t[j] = "-" -> {Value(DecimalToString(Sub(x, y)))}
                   [] t[j] = "*" -> {Value(DecimalToString(Mul(x, y)))}
                   [] t[j] = "/" ->
                        IF y.m = 0
                        THEN {Value(IF x.m = 0 THEN <<"NaN">> ELSE <<"Infinity">>)}
                        ELSE IF ExactQuotient(x, y)
                        THEN {Value(DecimalToString(Quotient(x, y)))}
                        ELSE {Value(<<"(quotient)">>)}
        ELSE IF t[Len(t)] \in {"+", "-", "*", "/", "%"}
        THEN \* the code ends in an operator that has no right operand
             {[kind |-> "throws"]}
        ELSE {[kind |-> "throws"], [kind |-> "undefined"], Value(<<"(value)">>)}

CalculatorError(expression) ==
    Returned([result |-> <<"Error">>, calculation |-> expression,
              explanation |-> Words(<<"No", "pude", "procesar", "este", "cálculo.",
                                      "Intenta", "con", "una", "expresión",
                                      "matemática", "válida.">>)])

\* a calculator whose try block has no catch
simulateCalculatorNoCatch(expression, o) ==
    IF o.kind = "value"
    THEN Returned([result |-> o.text,
                   calculation |-> Sanitize(expression) \o <<SP, "=", SP>> \o o.text,
                   explanation |-> Words(<<"Resultado", "del", "cálculo:">>) \o <<SP>> \o o.text])
    ELSE Thrown
\* simulateCalculator(expression), after its delay; o is what eval did
simulateCalculator(expression, o) ==
    IF Includes(expression, <<"1", "5", "%">>) /\ Includes(expression, <<"8", "5">>)
    THEN Returned([result |-> <<"12.75">>,
                   calculation |-> Words(<<"85", "×", "0.15", "=", "12.75">>),
                   explanation |-> Words(<<"El", "15%", "de", "propina", "para", "85", "euros",
                                           "es", "12.75", "euros.", "Total", "con", "propina:",
                                           "97.75", "euros.">>)])
    ELSE IF Includes(expression, <<"Bitcoin">>) \/ Includes(expression, <<"4", "3", "2", "5", "0">>)
    THEN Returned([result |-> <<"39,652.50">>,
                   calculation |-> Words(<<"43,250", "×", "0.918", "=", "39,652.50">>),
                   explanation |-> Words(<<"Conversión", "de", "43,250", "USD", "a", "EUR",
                                           "(tipo", "de", "cambio:", "0.918)">>)])
    ELSE IF o.kind = "value"
    THEN Returned([result |-> o.text,
                   calculation |-> Sanitize(expression) \o <<SP, "=", SP>> \o o.text,
                   explanation |-> Words(<<"Resultado", "del", "cálculo:">>) \o <<SP>> \o o.text])
    ELSE \* eval threw, or undefined.toString() did: the catch block
         CalculatorError(expression)

\* the code simulateCalculator hands to eval
EvalCode(expression) == ReplaceFirstPercent(Sanitize(expression))

\* the record simulateWeather builds from a row of its table
LocalWeather(location, temp, condition, humidity, wind) ==
    [location |-> location, temperature |-> temp, condition |-> condition,
     humidity |-> humidity, wind |-> wind,
     summary |-> <<"En", SP>> \o location \o <<":", SP>> \o NumberToString(temp)
                 \o <<"°C,", SP>> \o toLowerCase(condition) \o <<".", SP, "Humedad:", SP>>
                 \o NumberToString(humidity) \o <<"%,", SP, "Viento:", SP>> \o wind \o <<".">>]

Kmh(n) == NumberToString(n) \o <<SP, "km/h">>

\* simulateWeather(location), after its delay
simulateWeather(location) ==
    LET city == toLowerCase(location)
        nublado == <<"Parcialmente", SP, "nublado">>
        row(temp, condition, humidity, wind) ==
            LocalWeather(location, temp, condition, humidity, Kmh(wind))
    IN  CASE city = <<"madrid">> -> row(18, nublado, 65, 12)
          [] city = <<"barcelona">> -> row(22, <<"Soleado">>, 58, 8)
          [] city = <<"valencia">> -> row(20, <<"Despejado">>, 62, 10)
          [] city = <<"cdmx">> -> row(24, nublado, 45, 10)
          [] city = <<"ciudad", SP, "de", SP, "mexico">> -> row(24, nublado, 45, 10)
          [] city = <<"ciudad", SP, "de", SP, "méxico">> -> row(24, nublado, 45, 10)
          [] city = <<"guadalajara">> -> row(28, <<"Soleado">>, 40, 8)
          [] city = <<"monterrey">> -> row(32, <<"Despejado">>, 35, 15)
          [] city = <<"cancun">> -> row(30, <<"Soleado">>, 75, 12)
          [] city = <<"cancún">> -> row(30, <<"Soleado">>, 75, 12)
          [] city = <<"puebla">> -> row(22, nublado, 50, 9)
          [] city = <<"tijuana">> -> row(21, <<"Despejado">>, 55, 18)
          [] city = <<"merida">> -> row(33, <<"Soleado">>, 70, 7)
          [] city = <<"mérida">> -> row(33, <<"Soleado">>, 70, 7)
          [] OTHER -> row(16, <<"Variable">>, 60, 15)

Dec(m, e) == [m |-> m, e |-> e]

\* rates[rateKey] || 1
RateOf(from, to) ==
    CASE from = "USD" /\ to = "EUR" -> Dec(918, 3)
      [] from = "EUR" /\ to = "USD" -> Dec(1089, 3)
      [] from = "USD" /\ to = "MXN" -> Dec(1728, 2)
      [] from = "MXN" /\ to = "USD" -> Dec(58, 3)
      [] from = "EUR" /\ to = "MXN" -> Dec(1882, 2)
      [] from = "MXN" /\ to = "EUR" -> Dec(53, 3)
      [] OTHER -> Dec(1, 0)

\* simulateCurrency(from, to, amount), after its delay; fixed is what
\* result.toFixed(2) gave
simulateCurrency(from, to, amount, fixed) ==
    LET rate == RateOf(from, to)
    IN  [from |-> from, to |-> to, amount |-> amount, rate |-> rate, result |-> fixed,
         summary |-> DecimalToString(amount) \o <<SP, from, SP, "=", SP>> \o fixed
                     \o <<SP, to, SP, "(Tipo", SP, "de", SP, "cambio:", SP>>
                     \o DecimalToString(rate) \o <<")">>]

\* ------------------------------------------------------------------------
\* Client: the tool dispatcher of DemoRealtimeAgent
\* ------------------------------------------------------------------------
IncludesAny(s, keys) == \E key \in keys : Includes(s, key)

\* a dispatcher that pushes a tool at every keyword it meets
analyzeToolNeedsByOccurrence(message) ==
    LET tool(a) == CASE a \in {"busca", "precio"} -> <<"web_search">>
                     [] a \in {"calcula", "%"} -> <<"calculator">>
                     [] a \in {"clima", "tiempo"} -> <<"weather">>
                     [] a \in {"euro", "peso"} -> <<"currency">>
                     [] OTHER -> <<>>
    IN  Concat([i \in 1..Len(message) |-> tool(LowerAtom(message[i]))])
\* analyzeToolNeeds(message) of the client
DemoRealtimeAgent_analyzeToolNeeds(message) ==
    LET lowerMessage == toLowerCase(message)
        web_search ==
            IF IncludesAny(lowerMessage, { <<"busca">>, <<"información">>, <<"bitcoin">>,
                                           <<"precio">>, <<"typescript">>, <<"javascript">> })
            THEN <<"web_search">> ELSE <<>>
        calculator ==
            IF \/ IncludesAny(lowerMessage, { <<"calcula">>, <<"cálculo">>, <<"%">>, <<"propina">> })
               \/ MatchesArithmetic(lowerMessage)
            THEN <<"calculator">> ELSE <<>>
        weather ==
            IF IncludesAny(lowerMessage, { <<"tiempo">>, <<"clima">>, <<"temperatura">>,
                                           <<"madrid">>, <<"cdmx">>,
                                           <<"ciudad", SP, "de", SP, "mexico">>,
                                           <<"méxico">>, <<"mexico">>, <<"guadalajara">>,
                                           <<"monterrey">>, <<"cancún">>, <<"cancun">> })
            THEN <<"weather">> ELSE <<>>
        currency ==
            IF IncludesAny(lowerMessage, { <<"euro">>, <<"dólar">>, <<"peso">>,
                                           <<"conversión">>, <<"cambio">> })
            THEN <<"currency">> ELSE <<>>
    IN  web_search \o calculator \o weather \o currency

DemoRealtimeAgent_cities ==
    << <<"madrid">>, <<"barcelona">>, <<"valencia">>, <<"sevilla">>, <<"bilbao">>,
       <<"cdmx">>, <<"ciudad", SP, "de", SP, "mexico">>, <<"ciudad", SP, "de", SP, "méxico">>,
       <<"guadalajara">>, <<"monterrey">>, <<"cancun">>, <<"cancún">>, <<"puebla">>,
       <<"tijuana">>, <<"merida">>, <<"mérida">> >>

\* city.charAt(0).toUpperCase() + city.slice(1)
Capitalize(city) ==
    LET up(a) == CASE a = "madrid" -> "Madrid" [] a = "barcelona" -> "Barcelona"
                   [] a = "valencia" -> "Valencia" [] a = "sevilla" -> "Sevilla"
                   [] a = "bilbao" -> "Bilbao" [] a = "guadalajara" -> "Guadalajara"
                   [] a = "monterrey" -> "Monterrey" [] a = "cancun" -> "Cancun"
                   [] a = "cancún" -> "Cancún" [] a = "puebla" -> "Puebla"
                   [] a = "tijuana" -> "Tijuana" [] a = "merida" -> "Merida"
                   [] a = "mérida" -> "Mérida" [] OTHER -> a
    IN  <<up(city[1])>> \o Tail(city)

\* extractLocation(message) of the client: the first city of the list that
\* occurs in the lowercased message, capitalised; null when there is none
DemoRealtimeAgent_extractLocation(message) ==
    LET lowerMessage == toLowerCase(message)
        hits == {c \in 1..Len(DemoRealtimeAgent_cities) :
                    Includes(lowerMessage, DemoRealtimeAgent_cities[c])}
    IN  IF hits = {} THEN NoLocation
        ELSE LET city == DemoRealtimeAgent_cities[CHOOSE c \in hits : \A d \in hits : c <= d]
             IN  IF city = <<"cdmx">> THEN <<"CDMX">>
                 ELSE IF city \in { <<"ciudad", SP, "de", SP, "mexico">>,
                                    <<"ciudad", SP, "de", SP, "méxico">> }
                 THEN <<"Ciudad", SP, "de", SP, "México">>
                 ELSE Capitalize(city)

\* the first match of /(\d+(?:\.\d+)?)/ in the message, <<>> when none
RECURSIVE DigitRun(_, _)
DigitRun(s, i) == IF i <= Len(s) /\ IsDigit(s[i]) THEN <<s[i]>> \o DigitRun(s, i + 1) ELSE <<>>

FirstDecimalLiteral(message) ==
    IF \E i \in 1..Len(message) : IsDigit(message[i])
    THEN LET i == CHOOSE i \in 1..Len(message) :
                      IsDigit(message[i]) /\ \A j \in 1..(i - 1) : ~IsDigit(message[j])
             whole == DigitRun(message, i)
             j == i + Len(whole)
             frac == IF j <= Len(message) /\ message[j] = "." THEN DigitRun(message, j + 1) ELSE <<>>
         IN  IF frac = <<>> THEN whole ELSE whole \o <<".">> \o frac
    ELSE <<>>

\* extractCurrencyInfo(message): the amount and the pair of currencies
extractCurrencyInfo(message) ==
    LET lowerMessage == toLowerCase(message)
        amountMatch == FirstDecimalLiteral(message)
        amount == IF amountMatch # <<>> THEN parseFloat(amountMatch) ELSE Dec(100, 0)
        pair ==
            IF Includes(lowerMessage, <<"bitcoin">>) \/ Includes(lowerMessage, <<"btc">>)
            THEN <<"USD", "EUR">>
            ELSE IF Includes(lowerMessage, <<"euro">>) /\ Includes(lowerMessage, <<"dólar">>)
            THEN IF FirstIndex(lowerMessage, <<"euro">>) < FirstIndex(lowerMessage, <<"dólar">>)
                 THEN <<"EUR", "USD">> ELSE <<"USD", "EUR">>
            ELSE IF Includes(lowerMessage, <<"peso">>)
            THEN <<"USD", "MXN">>
            ELSE <<"USD", "EUR">>
    IN  [from |-> pair[1], to |-> pair[2], amount |-> amount]

\* the four conversational replies of generateResponse
CannedReplies ==
    << Words(<<"Entiendo", "tu", "consulta.", "¿Podrías", "ser", "más", "específico",
               "sobre", "lo", "que", "necesitas?">>),
       Words(<<"Interesante", "pregunta.", "¿Te", "gustaría", "que", "busque",
               "información", "específica", "sobre", "esto?">>),
       Words(<<"Puedo", "ayudarte", "con", "eso.", "¿Necesitas", "que", "realice",
               "algún", "cálculo", "o", "búsqueda?">>),
       Words(<<"¡Por", "supuesto!", "¿Hay", "algún", "aspecto", "particular", "que",
               "te", "interese", "más?">>) >>

\* the numbered list of sources of a web search
RECURSIVE Sources(_, _)
Sources(results, index) ==
    IF index > Len(results) THEN <<>>
    ELSE NumberToString(index) \o <<".", SP, "[">> \o results[index].title \o <<"](">>
         \o results[index].url \o <<")", "\n">> \o Sources(results, index + 1)

\* generateResponse(message, toolResults, toolsUsed) of the client, after
\* its delay; r is Math.floor(Math.random() * responses.length)
DemoRealtimeAgent_generateResponse(message, toolResults, toolsUsed, r) ==
    LET has(tool) == tool \in DOMAIN toolResults
        webSearch ==
            IF has("web_search")
            THEN <<"(lens)", SP, "**Búsqueda", SP, "realizada:**", "\n">>
                 \o toolResults["web_search"].summary \o <<"\n", "\n">>
                 \o (IF Len(toolResults["web_search"].results) > 0
                     THEN <<"**Fuentes", SP, "consultadas:**", "\n">>
                          \o Sources(toolResults["web_search"].results, 1) \o <<"\n">>
                     ELSE <<>>)
            ELSE <<>>
        calculator ==
            IF has("calculator")
            THEN <<"(abacus)", SP, "**Cálculo", SP, "realizado:**", "\n">>
                 \o toolResults["calculator"].calculation \o <<"\n">>
                 \o toolResults["calculator"].explanation \o <<"\n", "\n">>
            ELSE <<>>
        weather ==
            IF has("weather")
            THEN <<"(sun)", SP, "**Información", SP, "del", SP, "clima:**", "\n">>
                 \o toolResults["weather"].summary \o <<"\n", "\n">>
            ELSE <<>>
        currency ==
            IF has("currency")
            THEN <<"(exchange)", SP, "**Conversión", SP, "de", SP, "moneda:**", "\n">>
                 \o toolResults["currency"].summary \o <<"\n", "\n">>
            ELSE <<>>
    IN  IF Len(toolsUsed) = 0
        THEN CannedReplies[r + 1]
        ELSE webSearch \o calculator \o weather \o currency
             \o Words(<<"¿Hay", "algo", "más", "en", "lo", "que", "pueda", "ayudarte?">>)

\* ------------------------------------------------------------------------
\* Client: sendMessage and the local simulation, cut at their delays
\* ------------------------------------------------------------------------
\* what the user types: one or two of these words
KeyWords == {"clima", "Calcula", "busca", "euro", "hola"}
KeywordTexts ==
    {<<a>> : a \in KeyWords} \cup {<<a, SP, b>> : a, b \in KeyWords}
    \cup { Words(<<"euro", "clima", "Calcula", "busca">>) }

\* a question about the weather of a place
CityNames ==
    { <<"Madrid">>, <<"MADRID">>, <<"barcelona">>, <<"Valencia">>, <<"Sevilla">>,
      <<"bilbao">>, <<"CDMX">>, Words(<<"Ciudad", "de", "Mexico">>),
      Words(<<"Ciudad", "de", "México">>), <<"Guadalajara">>, <<"monterrey">>,
      <<"Cancun">>, <<"cancún">>, <<"Puebla">>, <<"tijuana">>, <<"merida">>,
      <<"Mérida">>, <<"Paris">> }
CityTexts == {<<"clima", SP, "en", SP>> \o c : c \in CityNames}

CurrencyTexts ==
    { <<"1", "0", "0", SP, "euro">>,
      <<"cambio", SP, "2", ".", "5">>,
      <<"euro", SP, "1", ".", "5", SP, "dólar">>,
      <<"dólar", SP, "2", "0", SP, "euro">>,
      <<"cambio", SP, "1", ".", "5", SP, "peso", SP, "2", "0">>,
      <<"conversión">>,
      <<"3", SP, "bitcoin", SP, "euro">> }

CalculatorTexts ==
    { <<"Calcula", SP, "2", "5", "0", SP, "*", SP, "1", ".", "2", "1">>,
      <<"Calcula", SP, "2", "+", "2", SP, "y", SP, "busca", SP, "precio">>,
      <<"Calcula", SP, "2", SP, "+">>,
      <<"Calcula", SP, "7", SP, "/", SP, "0">>,
      <<"1", "5", "%", SP, "de", SP, "8", "5">>,
      <<"5", "0", "%">>,
      <<"1", "0", "%", SP, "+", SP, "2", "0", "%">>,
      <<"Bitcoin", SP, "%">> }

\* texts that are sent one after the other
PairTexts ==
    { <<>>, <<SP>>, <<SP, "hola", SP>>,
      <<"Calcula", SP, "2", "+", "2", SP, "y", SP, "busca", SP, "precio">> }

UserTexts == KeywordTexts \cup CityTexts \cup CurrencyTexts \cup CalculatorTexts

Queues == {<<t>> : t \in UserTexts} \cup {<<a, b>> : a, b \in PairTexts}

\* this.useWebSocket && this.ws && this.ws.readyState === WebSocket.OPEN
SocketUsable == useWebSocket /\ socks # <<>> /\ socks[Len(socks)] = "open"

NumActive(status) == Cardinality({t \in DOMAIN status : status[t] = "active"})
Max(a, b) == IF a > b THEN a ELSE b

\* setToolActive, setToolReady, setToolError
setToolStatus(l, name, status) ==
    LET st == [l.status EXCEPT ![name] = status]
    IN  [l EXCEPT !.status = st, !.peak = Max(@, NumActive(st))]

UserMessage(content) == [type |-> "user", content |-> content]
AgentMessage(content, toolsUsed) ==
    [type |-> "agent", content |-> content, toolsUsed |-> toolsUsed]

\* a send that also starts the local simulation
sendMessageViaWebSocketAndLocal(l, content) ==
    LET neededTools == DemoRealtimeAgent_analyzeToolNeeds(content)
    IN  [l EXCEPT !.wire = Append(@, [type |-> "message", content |-> Text(content)]),
                  !.handled = Append(@, [content |-> content, via |-> "ws"]),
                  !.streamingDiv = FALSE, !.currentStreamingMessage = <<>>,
                  !.isProcessing = TRUE, !.tools = neededTools, !.results = <<>>,
                  !.pc = "respond"]
\* sendMessageViaWebSocket(content) and the finally block of sendMessage: the
\* streaming message of before is dropped, the frame goes to ws.send and
\* isProcessing is false again
sendMessageViaWebSocket(l, content) ==
    [l EXCEPT !.wire = Append(@, [type |-> "message", content |-> Text(content)]),
              !.handled = Append(@, [content |-> content, via |-> "ws"]),
              !.streamingDiv = FALSE, !.currentStreamingMessage = <<>>,
              !.isProcessing = FALSE]

\* sendMessageViaSimulation(content) up to its first delay: the tools are
\* chosen and the first one is set active, or generateResponse waits
sendMessageViaSimulation(l, content) ==
    LET neededTools == DemoRealtimeAgent_analyzeToolNeeds(content)
        l1 == [l EXCEPT !.handled = Append(@, [content |-> content, via |-> "local"]),
                        !.isProcessing = TRUE, !.tools = neededTools, !.results = <<>>,
                        !.lastEval = [kind |-> "none"]]
    IN  IF Len(neededTools) > 0
        THEN [setToolStatus(l1, neededTools[1], "active") EXCEPT !.pc = "tool", !.k = 1]
        ELSE [l1 EXCEPT !.pc = "respond", !.k = 0]

\* a sendMessage that does not look at isProcessing
sendMessageNoGuard ==
    /\ local.queue # <<>> /\ Head(local.queue) \notin {<<"(clear)">>, <<"(second)">>}
    /\ LET content == Trim(Head(local.queue))
           l0 == [local EXCEPT !.queue = Tail(@)]
       IN  IF content = <<>>
           THEN local' = [l0 EXCEPT !.ignored = @ + 1]
           ELSE LET l1 == [l0 EXCEPT !.content = content,
                                     !.messages = Append(@, UserMessage(content))]
                IN  IF SocketUsable
                    THEN local' = sendMessageViaWebSocket(l1, content)
                    ELSE local' = sendMessageViaSimulation(l1, content)
    /\ UNCHANGED <<useWebSocket, socks, timers, scheduled, connectionStatus, serverVars, sr>>
\* sendMessage(): the user has typed the next text and presses send
sendMessage ==
    /\ local.queue # <<>> /\ Head(local.queue) \notin {<<"(clear)">>, <<"(second)">>}
    /\ LET content == Trim(Head(local.queue))
           l0 == [local EXCEPT !.queue = Tail(@)]
       IN  IF local.isProcessing \/ content = <<>>
           THEN local' = [l0 EXCEPT !.ignored = @ + 1,
                                    !.dropped = IF local.isProcessing
                                                THEN Append(@, Head(local.queue)) ELSE @]
           ELSE LET l1 == [l0 EXCEPT !.content = content,
                                     !.messages = Append(@, UserMessage(content))]
                IN  IF SocketUsable
                    THEN local' = sendMessageViaWebSocket(l1, content)
                    ELSE local' = sendMessageViaSimulation(l1, content)
    /\ UNCHANGED <<useWebSocket, socks, timers, scheduled, connectionStatus, serverVars, sr>>

\* what eval can do in the calculator call for this message
CalculatorEvals(message) ==
    IF \/ Includes(message, <<"1", "5", "%">>) /\ Includes(message, <<"8", "5">>)
       \/ Includes(message, <<"Bitcoin">>) \/ Includes(message, <<"4", "3", "2", "5", "0">>)
    THEN {[kind |-> "none"]}
    ELSE EvalOutcomes(EvalCode(message))

\* the outcomes of the simulator call of one tool: a record, or a throw
ToolOutcomes(toolName, message) ==
    CASE toolName = "web_search" ->
           {[eval |-> [kind |-> "none"], res |-> Returned(simulateWebSearch(message))]}
      [] toolName = "calculator" ->
           {[eval |-> o, res |-> simulateCalculator(message, o)] : o \in CalculatorEvals(message)}
      [] toolName = "weather" ->
           LET found == DemoRealtimeAgent_extractLocation(message)
               location == IF found = NoLocation THEN <<"Madrid">> ELSE found
           IN  {[eval |-> [kind |-> "none"], res |-> Returned(simulateWeather(location))]}
      [] toolName = "currency" ->
           LET info == extractCurrencyInfo(message)
               product == Mul(info.amount, RateOf(info.from, info.to))
           IN  {[eval |-> [kind |-> "none"],
                 res |-> Returned(simulateCurrency(info.from, info.to, info.amount, fixed))] :
                   fixed \in toFixed2(product)}

\* executeTools: the simulator call of tools[k] is over; its result is
\* stored and the tool set ready, or it threw and the tool is set to error;
\* then the next tool is set active, or generateResponse waits
executeTools(l, outcome) ==
    LET toolName == l.tools[l.k]
        l0 == [l EXCEPT !.lastEval = IF toolName = "calculator" THEN outcome.eval ELSE @]
        l1 == IF outcome.res.threw
              THEN setToolStatus(l0, toolName, "error")
              ELSE setToolStatus([l0 EXCEPT !.results = (toolName :> outcome.res.value) @@ @],
                                 toolName, "ready")
    IN  IF l.k < Len(l.tools)
        THEN [setToolStatus(l1, l.tools[l.k + 1], "active") EXCEPT !.k = l.k + 1]
        ELSE [l1 EXCEPT !.pc = "respond"]

\* the delay of the running simulator call is over
LocalToolReturn ==
    /\ local.pc = "tool"
    /\ \E outcome \in ToolOutcomes(local.tools[local.k], local.content) :
          local' = executeTools(local, outcome)
    /\ UNCHANGED <<useWebSocket, socks, timers, scheduled, connectionStatus, serverVars, sr>>

\* the random indices generateResponse can draw
ReplyIndices(toolsUsed) == IF Len(toolsUsed) = 0 THEN 0..(Len(CannedReplies) - 1) ELSE {0}

\* the delays of the simulator calls, in milliseconds, and of generateResponse
ToolDelay ==
    [web_search |-> [min |-> 800, max |-> 1500], calculator |-> [min |-> 200, max |-> 500],
     weather |-> [min |-> 600, max |-> 1000], currency |-> [min |-> 400, max |-> 800]]
GenerateDelay == 500

RECURSIVE SumOver(_, _)
SumOver(tools, bound) ==
    IF tools = <<>> THEN 0 ELSE ToolDelay[Head(tools)][bound] + SumOver(Tail(tools), bound)

\* Date.now() - startTime at the end of a local turn: the shortest and the
\* longest the delays allow
LocalLatencies(tools) ==
    {GenerateDelay + SumOver(tools, "min"), GenerateDelay + SumOver(tools, "max")}

\* the delay of generateResponse is over: the reply is composed and shown,
\* the metrics are updated, and the finally block of sendMessage runs
LocalRespond ==
    /\ local.pc = "respond"
    /\ \E r \in ReplyIndices(local.tools), latency \in LocalLatencies(local.tools) :
          LET response == DemoRealtimeAgent_generateResponse(local.content, local.results,
                                                              local.tools, r)
          IN  local' = [local EXCEPT !.response = response,
                                     !.messages = Append(@, AgentMessage(response, local.tools)),
                                     !.metrics.latency = latency,
                                     !.metrics.messageCount = @ + 1,
                                     !.metrics.toolsUsed =
                                         IF Len(local.tools) > 0 THEN @ + 1 ELSE @,
                                     !.isProcessing = FALSE,
                                     !.pc = "idle"]
    /\ UNCHANGED <<useWebSocket, socks, timers, scheduled, connectionStatus, serverVars, sr>>

\* the server receives the next frame the client has sent
Deliver ==
    /\ Len(turns) < Len(local.wire)
    /\ OnMessage([json |-> TRUE, msg |-> local.wire[Len(turns) + 1]])

\* the page is loaded, the constructor has run and the user is about to type
InitChat ==
    /\ InitServer
    /\ sr = SrIdle
    /\ Constructed
    /\ \E q \in Queues : local = [LocalIdle EXCEPT !.queue = q]

NextChat ==
    \/ \E n \in 1..Len(socks) : SocketOpen(n)
    \/ \E n \in 1..Len(socks) : SocketError(n)
    \/ \E n \in 1..Len(socks) : SocketClose(n)
    \/ sendMessage
    \/ LocalToolReturn
    \/ LocalRespond
    \/ Deliver
    \/ \E t \in 1..Len(turns) : \E up \in UpstreamOf(turns[t]) : ToolReturn(t, up)
    \/ \E t \in 1..Len(turns) : TimerFire(t)

SpecChat == InitChat /\ [][NextChat]_vars

\* ------------------------------------------------------------------------
\* Client: the frames of the server, the clear button and the clock
\* ------------------------------------------------------------------------
\* finalizeStreamingMessage(content): without the element of the streaming
\* message it returns at once
finalizeStreamingMessage(l, content) ==
    IF ~l.streamingDiv THEN l
    ELSE [l EXCEPT !.messages = Append(@, [type |-> "agent", content |-> content]),
                   !.metrics.messageCount = @ + 1,
                   !.streamingDiv = FALSE,
                   !.currentStreamingMessage = <<>>]

\* handleWebSocketMessage(data); latency is the reading of the server's
\* clock in metadata.latency
handleWebSocketMessage(l, message, latency) ==
    CASE message.type = "status" ->
           IF message.status = "listening" /\ l.currentStreamingMessage # <<>>
           THEN finalizeStreamingMessage(l, l.currentStreamingMessage)
           ELSE l
      [] message.type = "chunk" ->
           [l EXCEPT !.currentStreamingMessage = @ \o message.chunk, !.streamingDiv = TRUE]
      [] message.type = "response" ->
           [l EXCEPT !.messages = Append(@, AgentMessage(message.content,
                                                         message.metadata.toolsUsed)),
                     !.currentStreamingMessage = <<>>,
                     !.metrics.latency = IF latency # 0 THEN latency ELSE @,
                     !.metrics.toolsUsed =
                         IF Len(message.metadata.toolsUsed) > 0 THEN @ + 1 ELSE @,
                     !.metrics.messageCount = @ + 1]
      [] message.type = "tool_call" -> setToolStatus(l, message.toolName, "active")
      [] message.type = "tool_result" -> setToolStatus(l, message.toolName, "ready")
      [] message.type = "error" ->
           [l EXCEPT !.messages = Append(@, [type |-> "system",
                                             content |-> <<"Error:", SP, message.error>>])]
      [] OTHER -> l

\* Date.now() - startTime of the server as a response frame carries it: 0
\* when the turn took less than a millisecond
LatencyReadings(message) == IF message.type = "response" THEN {0, 1} ELSE {0}

\* the socket of the client is open: frames sent to it raise message events
ClientOpen == socks # <<>> /\ socks[Len(socks)] = "open"

\* ws.onmessage for the frame that arrived first
Receive ==
    /\ ClientOpen
    /\ down # <<>>
    /\ \E latency \in LatencyReadings(Head(down)) :
          local' = handleWebSocketMessage(local, Head(down), latency)
    /\ down' = Tail(down)
    /\ UNCHANGED <<config, wsOpen, turns, ev, out, sr>>
    /\ UNCHANGED <<useWebSocket, socks, timers, scheduled, connectionStatus>>

\* the click on the clear button, as an entry of what the user does
ClearClick == <<"(clear)">>

\* clearChat(): the history and the page are emptied, two counters are set
\* to 0 and sessionStartTime is now
clearChat(l) ==
    [l EXCEPT !.messages = <<>>,
              !.streamingDiv = FALSE,
              !.metrics.messageCount = 0,
              !.metrics.toolsUsed = 0,
              !.age = 0]

\* the user clicks the clear button
ClickClear ==
    /\ local.queue # <<>> /\ Head(local.queue) = ClearClick
    /\ local' = clearChat([local EXCEPT !.queue = Tail(@)])
    /\ UNCHANGED <<useWebSocket, socks, timers, scheduled, connectionStatus, serverVars, sr>>

\* a second that goes by, as an entry of what happens at the page
Second == <<"(second)">>

\* a second goes by and the callback of startMetricsUpdater runs:
\* updateSessionDuration
Tick ==
    /\ local.queue # <<>> /\ Head(local.queue) = Second
    /\ local' = [local EXCEPT !.queue = Tail(@), !.age = @ + 1,
                              !.metrics.sessionDuration = local.age + 1]
    /\ UNCHANGED <<useWebSocket, socks, timers, scheduled, connectionStatus, serverVars, sr>>

\* ------------------------------------------------------------------------
\* The session: the client, the server and the frames between them
\* ------------------------------------------------------------------------
\* frames that were sent reach the client, in the order sent
Arrive(frames) == IF ClientOpen THEN down \o frames ELSE down

\* the frames a step has added to the log of turn t
NewFrames(t) == SubSeq(turns'[t].sent, Len(turns[t].sent) + 1, Len(turns'[t].sent))

\* the server receives the next message frame of the client
DeliverToClient ==
    /\ Len(turns) < Len(local.wire)
    /\ Handle([json |-> TRUE, msg |-> local.wire[Len(turns) + 1]])
    /\ down' = Arrive(out')

\* the server receives a config frame
Configure ==
    /\ \E u \in ConfigUpdates : Handle([json |-> TRUE, msg |-> [type |-> "config", config |-> u]])
    /\ config' # config
    /\ down' = Arrive(out')

ToolReturnToClient(t, up) == ResumeAfterTool(t, up) /\ down' = Arrive(NewFrames(t))

TimerFireToClient(t) == ResumeAfterTimer(t) /\ down' = Arrive(NewFrames(t))

\* what the user types and clicks in a session, and the seconds in between
SessionQueues ==
    { << <<"busca">> >>,
      << <<"busca">>, <<"Calcula">> >>,
      << <<"Calcula">>, Second, ClearClick, Second >> }

InitSession ==
    /\ InitServer
    /\ sr = SrIdle
    /\ Constructed
    /\ \E q \in SessionQueues : local = [LocalIdle EXCEPT !.queue = q]

NextSession ==
    \/ \E n \in 1..Len(socks) : SocketOpen(n)
    \/ \E n \in 1..Len(socks) : SocketClose(n)
    \/ sendMessage
    \/ ClickClear
    \/ Tick
    \/ LocalToolReturn
    \/ LocalRespond
    \/ DeliverToClient
    \/ Configure
    \/ \E t \in 1..Len(turns) : \E up \in UpstreamOf(turns[t]) : ToolReturnToClient(t, up)
    \/ \E t \in 1..Len(turns) : TimerFireToClient(t)
    \/ Receive

SpecSession == InitSession /\ [][NextSession]_vars

\* ------------------------------------------------------------------------
\* Properties
\* ------------------------------------------------------------------------
OfType(log, type) == SelectSeq(log, LAMBDA f : f.type = type)
OfStatus(log, st) == SelectSeq(log, LAMBDA f : f.type = "status" /\ f.status = st)
Payloads(chunks) == [n \in 1..Len(chunks) |-> chunks[n].chunk]
Done(t) == turns[t].pc = "done"
Streamed(t) == turns[t].cfg.streamingEnabled

\* C1: when streamResponse has returned on a connection that stayed open, it
\* has sent one chunk frame per space-separated word of the response (one
\* more than the response has spaces), and the chunk payloads, put together
\* in the order sent, are the response; every chunk but the last ends with
\* the separator.
C1_ChunksRebuildResponse ==
    (sr.pc = "done" /\ wsOpen) =>
        LET chunks == OfType(sr.sent, "chunk")
        IN  /\ Len(chunks) = NumSpaces(sr.response) + 1
            /\ Concat(Payloads(chunks)) = sr.response
            /\ \A n \in 1..Len(chunks) :
                  /\ NumSpaces(chunks[n].chunk) = (IF n < Len(chunks) THEN 1 ELSE 0)
                  /\ n < Len(chunks) => chunks[n].chunk[Len(chunks[n].chunk)] = SP

\* a response with an empty word in it has been streamed to the end
C1_Witness ==
    sr.pc = "done" /\ wsOpen /\ sr.response = <<"a", SP, SP, "a">>
        /\ Len(OfType(sr.sent, "chunk")) = 3

\* C2: a finished streamed turn has exactly one "listening" status frame
\* after its last chunk.
C2_OneListeningAfterChunks ==
    \A t \in 1..Len(turns) :
        (Done(t) /\ Streamed(t)) => Len(OfStatus(turns[t].sent, "listening")) = 1

\* C3: at most one turn is in flight on the connection: a message frame is
\* taken up only when every earlier turn has sent its final status frame.
C3_OneTurnInFlight ==
    Cardinality({t \in 1..Len(turns) : turns[t].pc \in {"tool", "stream"}}) <= 1

\* the words of the response of turn t, counted from the text itself
WordCount(t) == NumSpaces(turns[t].response) + 1

C5_MalformedFrame ==
    [][(ev'.kind = "malformed" /\ ev' # ev) =>
          /\ out' = <<[type |-> "error", error |-> "Error al procesar el mensaje"]>>
          /\ wsOpen' /\ wsOpen
          /\ config' = config
          /\ turns' = turns]_vars

\* a malformed frame arrived in the middle of a turn, which then finished
C5_Witness ==
    /\ ev.kind = "malformed" /\ Len(out) = 1 /\ wsOpen
    /\ \E t \in 1..Len(turns) : Done(t)
    /\ \E t \in 1..Len(turns) : turns[t].pc = "stream"

\* C6: an audio frame, and a frame with any tag other than message,
\* interrupt and config, is answered with exactly one error frame, which
\* for an unrecognised tag ends with that tag; nothing else is sent and the
\* configuration and the turns stay as they were.
C6_UnhandledTagFrame ==
    [][(ev'.kind \in {"audio", "unknown"} /\ ev' # ev) =>
          /\ Len(out') = 1
          /\ out'[1].type = "error"
          /\ DOMAIN out'[1] = {"type", "error"}
          /\ ev'.kind = "audio" =>
                out'[1].error = "Procesamiento de audio no implementado aún"
          /\ ev'.kind = "unknown" =>
                /\ ev'.tag \notin {"message", "audio", "interrupt", "config"}
                /\ out'[1].error[Len(out'[1].error)] = ev'.tag
          /\ config' = config
          /\ turns' = turns]_vars

\* a frame with an unrecognised tag arrived while a turn was in flight
C6_Witness ==
    /\ ev.kind = "unknown" /\ ev.tag = "ping"
    /\ Len(out) = 1 /\ out[1].type = "error"
    /\ \E t \in 1..Len(turns) : turns[t].pc \in {"tool", "stream"}

\* where a frame belongs in a turn
Rank(f) ==
    CASE IsStatus(f, "processing") -> 1
      [] f.type \in {"tool_call", "tool_result"} -> 2
      [] IsStatus(f, "responding") -> 3
      [] f.type \in {"chunk", "response"} -> 4
      [] IsStatus(f, "listening") -> 5
      [] OTHER -> 0

\* C7: in the frames of a turn that was handled without error, "processing"
\* comes first, then the tool_call and tool_result frames, then
\* "responding", then the chunk or response frames, then "listening"; a
\* finished turn has sent "processing" and "responding" once each and ends
\* with "listening".
C7_StatusOrder ==
    \A t \in 1..Len(turns) :
        LET log == turns[t].sent
        IN  turns[t].pc # "failed" =>
              /\ Rank(log[1]) = 1
              /\ \A a \in 2..Len(log) :
                    /\ Rank(log[a]) > 1
                    /\ Rank(log[a - 1]) <= Rank(log[a])
                    /\ Rank(log[a]) = 3 => Rank(log[a - 1]) < 3
              /\ Done(t) => /\ Rank(log[Len(log)]) = 5
                            /\ \E a, b \in 1..Len(log) : Rank(log[a]) = 3 /\ Rank(log[b]) = 4

\* a finished turn that called tools and streamed its response
C7_Witness ==
    \E t \in 1..Len(turns) :
        /\ Done(t)
        /\ Len(OfType(turns[t].sent, "tool_result")) = 2
        /\ Len(OfType(turns[t].sent, "chunk")) > 1

\* C8: a turn whose message frame arrived while streamingEnabled was false
\* sends no chunk frame and, by the time it is done, exactly one response
\* frame; that frame carries the whole response text and, as
\* metadata.toolsUsed, the tools selected for the message.
C8_SingleResponseFrame ==
    \A t \in 1..Len(turns) :
        (~Streamed(t) /\ turns[t].pc # "failed") =>
            LET log == turns[t].sent
                responses == OfType(log, "response")
            IN  /\ OfType(log, "chunk") = <<>>
                /\ Len(responses) = (IF Done(t) THEN 1 ELSE 0)
                /\ Done(t) =>
                      /\ responses[1].content =
                            generateResponse(turns[t].content.text, turns[t].results,
                                             analyzeToolNeeds(turns[t].content.text))
                      /\ responses[1].content # <<>>
                      /\ responses[1].metadata.toolsUsed =
                            analyzeToolNeeds(turns[t].content.text)
                      /\ Len(OfType(log, "tool_call")) =
                            Len(responses[1].metadata.toolsUsed)

\* a finished turn without streaming that used two tools
C8_Witness ==
    \E t \in 1..Len(turns) :
        /\ Done(t) /\ ~Streamed(t)
        /\ Len(OfType(turns[t].sent, "response")) = 1
        /\ OfType(turns[t].sent, "response")[1].metadata.toolsUsed = <<"calculator", "web_search">>

\* C9: the configuration starts as {streamingEnabled true, audioEnabled
\* false, interruptible true, language es}; a step that changes it handles a
\* config frame, and the new record differs from the old one only in fields
\* that frame carries.
C9_ConfigOnlyByConfigFrame ==
    /\ config = [streamingEnabled |-> TRUE, audioEnabled |-> FALSE,
                 interruptible |-> TRUE, language |-> "es"]
    /\ [][config' # config =>
            /\ ev'.kind = "config"
            /\ turns' = turns
            /\ out' = <<>>
            /\ DOMAIN config' = DOMAIN config
            /\ \E u \in ConfigUpdates :
                  \A f \in DOMAIN config :
                      config'[f] = (IF f \in DOMAIN u THEN u[f] ELSE config[f])]_vars

\* a config frame has turned streaming off and left the other fields alone
C9_Witness ==
    /\ ev.kind = "config"
    /\ config = [streamingEnabled |-> FALSE, audioEnabled |-> FALSE,
                 interruptible |-> TRUE, language |-> "es"]

\* C10: every socket that has closed, after an error event or without one,
\* has set exactly one reconnect timer, always with the fixed delay of
\* 3000 ms, and an error event alone sets none; while useWebSocket is true
\* and the last socket is closed a reconnect is pending, however many
\* sockets have been tried before.
C10_ReconnectAfterClose ==
    /\ scheduled = NumClosed
    /\ \A j \in 1..Len(timers) : timers[j].delay = 3000 /\ timers[j].elapsed <= 3000
    /\ (useWebSocket /\ socks # <<>> /\ socks[Len(socks)] = "closed") => Len(timers) = 1
    /\ ~useWebSocket => \A n \in 1..Len(socks) : socks[n] = "closed"

\* the third socket has closed after an error and its reconnect is pending
C10_Witness ==
    /\ useWebSocket /\ Len(socks) >= 3 /\ socks[Len(socks)] = "closed"
    /\ scheduled = Len(socks) /\ Len(timers) = 1
    /\ connectionStatus = "disconnected"

\* ------------------------------------------------------------------------
\* Properties of the client session and of the tools
\* ------------------------------------------------------------------------
Range(seq) == {seq[n] : n \in 1..Len(seq)}
Last(seq) == seq[Len(seq)]
UserCount(l) == Len(SelectSeq(l.messages, LAMBDA m : m.type = "user"))
LastUser(l) == Last(SelectSeq(l.messages, LAMBDA m : m.type = "user")).content
NoDuplicates(seq) == \A a, b \in 1..Len(seq) : seq[a] = seq[b] => a = b
\* seq keeps the order of the list order
InOrderOf(seq, order) ==
    \A a, b \in 1..Len(seq) :
        a < b => \E x, y \in 1..Len(order) : x < y /\ order[x] = seq[a] /\ order[y] = seq[b]

\* C11: a call of sendMessage with a text that is not blank, made while no
\* other call is processing, accepts the message, and every accepted message
\* goes to exactly one handler: one frame with its content is given to
\* ws.send if and only if useWebSocket is true and the socket is OPEN, and
\* otherwise the local simulation starts on it; no other step sends a frame
\* or starts a simulation.
C11_ExactlyOneHandler ==
    [][ LET accepted == UserCount(local') - UserCount(local)
            sentNow == Len(local'.wire) - Len(local.wire)
            startedNow == IF local.pc = "idle" /\ local'.pc # "idle" THEN 1 ELSE 0
            pressed == local'.queue # local.queue
        IN  /\ sentNow + startedNow = accepted
            /\ accepted \in {0, 1}
            /\ (pressed /\ ~local.isProcessing /\ Trim(Head(local.queue)) # <<>>) => accepted = 1
            /\ accepted = 1 =>
                 /\ pressed /\ LastUser(local') = Trim(Head(local.queue))
                 /\ sentNow = 1 <=> SocketUsable
                 /\ sentNow = 1 =>
                      Last(local'.wire) = [type |-> "message", content |-> Text(LastUser(local'))]
                 /\ startedNow = 1 => local'.content = LastUser(local') /\ local'.isProcessing
      ]_vars

C11_Witness ==
    /\ Len(local.handled) = 2
    /\ local.handled[1].via = "local"
    /\ local.handled[2].via = "ws"
    /\ local.ignored = 0

\* C12: the tools the client's local simulation selects for a message, and
\* their order, are the tools the server's dispatcher selects for the same
\* text.
C12_SameToolsBothSides ==
    (local.handled # <<>> /\ Last(local.handled).via = "local") =>
        local.tools = analyzeToolNeeds(local.content)

UpstreamFailures == {"nokey", "status", "neterror", "notjson", "badpayload"}

\* the location executeTool asks the weather of
WeatherLocation(message) ==
    IF extractLocation(message) = NoLocation THEN <<"Madrid">> ELSE extractLocation(message)

\* C13: the weather tool of the server never fails outward: whatever the
\* upstream call did, the turn gets a tool_result frame for the weather tool
\* and no error frame, and the turn does not end in the catch block; when the
\* key is missing, the status is not ok, the network fails or the payload
\* cannot be read, the result is the record of the static table for the
\* location (the default record when the table has no row for it).
C13_WeatherNeverFails ==
    \A t \in 1..Len(turns) :
        LET tr == turns[t]
        IN  /\ tr.pc # "failed" \/ tr.content.kind # "string"
            /\ \A n \in 1..Len(tr.ups) :
                 tr.tools[n] = "weather" =>
                    /\ OfType(tr.sent, "error") = <<>>
                    /\ Len(SelectSeq(tr.sent, LAMBDA f : f.type = "tool_result"
                                                         /\ f.toolName = "weather")) = 1
                    /\ tr.ups[n].kind \in UpstreamFailures =>
                         /\ tr.results[n] = getSimulatedWeather(WeatherLocation(tr.content.text))
                         /\ tr.results[n].temperature \in {18, 22, 20, 24, 16}

C13_Witness ==
    \E t \in 1..Len(turns) :
        /\ turns[t].pc = "done"
        /\ turns[t].tools = <<"weather">>
        /\ turns[t].ups[1].kind = "neterror"
        /\ turns[t].results[1].temperature = 16

ClientPriority == <<"web_search", "calculator", "weather", "currency">>
ServerPriority == <<"weather", "calculator", "web_search">>

\* C14: the list of tools selected for a message has no duplicates and keeps
\* one fixed order of priority, on the client (web_search, calculator,
\* weather, currency) and on the server (weather, calculator, web_search),
\* wherever the keywords stand in the message; several tools can be selected.
C14_FixedPriorityOrder ==
    /\ NoDuplicates(local.tools) /\ InOrderOf(local.tools, ClientPriority)
    /\ \A t \in 1..Len(turns) :
          NoDuplicates(turns[t].tools) /\ InOrderOf(turns[t].tools, ServerPriority)

C14_Witness ==
    /\ local.content = Words(<<"euro", "clima", "Calcula", "busca">>)
    /\ local.tools = ClientPriority
    /\ local.pc = "idle"

\* C15: a message that selects no tool gets no error and one of the four
\* canned conversational replies, from the local simulation and from the
\* server alike.
C15_CannedReply ==
    /\ (local.pc = "idle" /\ local.handled # <<>> /\ Last(local.handled).via = "local"
        /\ local.tools = <<>>) => local.response \in Range(CannedReplies)
    /\ \A t \in 1..Len(turns) :
          (turns[t].pc = "done" /\ turns[t].tools = <<>>) =>
             /\ OfType(turns[t].sent, "error") = <<>>
             /\ turns[t].response \in Range(CannedReplies)

IsDefaultWeather(w) ==
    /\ w.temperature = 16 /\ w.condition = <<"Variable">>
    /\ w.humidity = 60 /\ w.wind = Kmh(15)

\* C16: when the message names a city of the dispatcher's city list, the
\* weather tool returns that city's own record, and the default record (16,
\* "Variable", 60, "15 km/h") only for a location that matches no listed city.
C16_CityOwnRecord ==
    ("weather" \in DOMAIN local.results) =>
        LET w == local.results["weather"]
            listed == DemoRealtimeAgent_extractLocation(local.content) # NoLocation
        IN  /\ listed => ~IsDefaultWeather(w)
            /\ listed => w.location = DemoRealtimeAgent_extractLocation(local.content)

\* C17: the amount of the currency tool is the first decimal literal of the
\* message (100 when there is none) and the reported result is amount * rate
\* rounded to two decimals.
C17_CurrencyRounded ==
    ("currency" \in DOMAIN local.results) =>
        LET c == local.results["currency"]
            literal == FirstDecimalLiteral(local.content)
        IN  /\ c.amount = (IF literal = <<>> THEN Dec(100, 0) ELSE parseFloat(literal))
            /\ c.rate = RateOf(c.from, c.to)
            /\ c.result = Fixed2(HundredthsNearest(Mul(c.amount, c.rate)))

\* the local calculator call of the current turn is over
CalculatorCalled ==
    /\ local.handled # <<>> /\ Last(local.handled).via = "local"
    /\ \E n \in 1..Len(local.tools) :
          local.tools[n] = "calculator" /\ (n < local.k \/ local.pc \in {"respond", "idle"})

\* C18: the calculator of the client never raises: when its call is over
\* the tool is not in the error state and the turn has a result record of
\* the calculator; when eval threw, or gave undefined, that record has the
\* result "Error", and when eval gave a value the record has that value.
C18_CalculatorNeverRaises ==
    CalculatorCalled =>
        /\ local.status["calculator"] # "error"
        /\ "calculator" \in DOMAIN local.results
        /\ local.lastEval.kind \in {"throws", "undefined"} =>
              local.results["calculator"].result = <<"Error">>
        /\ local.lastEval.kind = "value" =>
              local.results["calculator"].result = local.lastEval.text

C18_Witness ==
    /\ CalculatorCalled
    /\ local.lastEval.kind = "throws"
    /\ local.results["calculator"].result = <<"Error">>
    /\ local.pc = "idle"

Calcula250 == <<"Calcula", SP, "2", "5", "0", SP, "*", SP, "1", ".", "2", "1">>

\* C19: for "Calcula 250 * 1.21" the calculator is selected and the result
\* reported for the turn is 302.5, from the simulator of the client and from
\* the tool executor of the server.
C19_Calcula250 ==
    /\ (local.content = Calcula250 /\ local.pc = "idle" /\ Last(local.handled).via = "local") =>
          /\ local.tools = <<"calculator">>
          /\ local.results["calculator"].result = <<"3", "0", "2", ".", "5">>
    /\ \A t \in 1..Len(turns) :
          (turns[t].content = Text(Calcula250) /\ turns[t].pc = "done") =>
             /\ turns[t].tools = <<"calculator">>
             /\ turns[t].results[1].result = <<"3", "0", "2", ".", "5">>

\* C20: when several tools are selected for one message, more than one of
\* them is in the active state at some moment of the turn.
C20_ToolsInParallel ==
    (local.pc = "idle" /\ Len(local.handled) = 1 /\ local.handled[1].via = "local"
     /\ Len(local.tools) >= 2) => local.peak >= 2

\* ------------------------------------------------------------------------
\* Properties of the turns of the server
\* ------------------------------------------------------------------------
\* the tool_call and tool_result frames of a log, in the order sent
ToolFramesOf(log) == SelectSeq(log, LAMBDA f : f.type \in {"tool_call", "tool_result"})

\* the tools selected for the message of turn t
Selected(t) ==
    IF turns[t].content.kind = "string" THEN analyzeToolNeeds(turns[t].content.text) ELSE <<>>

\* C24: the tool frames of a turn are, for each selected tool in order, one
\* tool_call frame and then one tool_result frame with the same toolName,
\* the pair of a tool being complete before the tool_call of the next; a
\* turn that waits for a tool has its tool_call and not yet its
\* tool_result, and a turn past its tool loop has as many tool_call frames
\* as tools were selected.
C24_ToolCallThenResult ==
    \A t \in 1..Len(turns) :
        LET frames == ToolFramesOf(turns[t].sent)
            tools == Selected(t)
        IN  /\ Len(frames) <= 2 * Len(tools)
            /\ \A n \in 1..Len(frames) :
                  /\ frames[n].type = (IF n % 2 = 1 THEN "tool_call" ELSE "tool_result")
                  /\ frames[n].toolName = tools[(n + 1) \div 2]
            /\ turns[t].pc = "tool" => Len(frames) % 2 = 1
            /\ turns[t].pc \in {"stream", "done"} =>
                  /\ Len(frames) = 2 * Len(tools)
                  /\ Len(OfType(turns[t].sent, "tool_call")) = Len(tools)

\* a finished turn with two tools: call and result of the calculator, then
\* call and result of the web search
C24_Witness ==
    \E t \in 1..Len(turns) :
        /\ Done(t)
        /\ Selected(t) = <<"calculator", "web_search">>
        /\ LET frames == ToolFramesOf(turns[t].sent)
           IN  /\ Len(frames) = 4
               /\ frames[1].type = "tool_call" /\ frames[2].type = "tool_result"
               /\ frames[2].toolName = "calculator" /\ frames[3].toolName = "web_search"

\* C25: a turn that failed after its "processing" status (its content was
\* not a string) has sent, after that status, exactly one error frame and
\* then exactly one status "ready" frame and nothing else, so no
\* "listening"; the socket is still open, and a message frame that arrives
\* later gets a turn of its own that starts with "processing" and, with
\* string content, does not fail.
C25_ErrorThenReady ==
    \A t \in 1..Len(turns) :
        turns[t].pc = "failed" =>
            LET log == turns[t].sent
            IN  /\ Len(log) = 3
                /\ IsStatus(log[1], "processing")
                /\ log[2] = ErrorFrame("Error procesando tu mensaje")
                /\ IsStatus(log[3], "ready")
                /\ OfStatus(log, "listening") = <<>>
                /\ wsOpen
                /\ \A u \in (t + 1)..Len(turns) :
                      /\ IsStatus(turns[u].sent[1], "processing")
                      /\ turns[u].content.kind = "string" => turns[u].pc # "failed"

\* the first turn has failed on content that is a number, and the turn of
\* the message frame after it is finished
C25_Witness ==
    /\ Len(turns) = 2
    /\ turns[1].pc = "failed" /\ turns[1].content.kind = "number"
    /\ Len(OfType(turns[1].sent, "error")) = 1
    /\ Done(2) /\ Len(OfType(turns[2].sent, "chunk")) > 1

\* C27: a turn takes the configuration the session has when its message
\* frame is received and keeps it: no later step, a config frame included,
\* changes the configuration of a turn that exists, and a config frame
\* changes no turn at all.  A turn that has composed its response has sent
\* it as chunk frames if that configuration has streaming enabled, and as
\* one response frame if not.
C27_ConfigAtReception ==
    /\ [](\A t \in 1..Len(turns) :
            turns[t].pc \in {"stream", "done"} =>
                LET chunks == OfType(turns[t].sent, "chunk")
                    responses == OfType(turns[t].sent, "response")
                IN  IF turns[t].cfg.streamingEnabled
                    THEN chunks # <<>> /\ responses = <<>>
                    ELSE chunks = <<>> /\ Len(responses) = 1)
    /\ [][/\ \A t \in 1..Len(turns) : turns'[t].cfg = turns[t].cfg
          /\ Len(turns') > Len(turns) => turns'[Len(turns')].cfg = config
          /\ config' # config => turns' = turns]_vars

\* a config frame that turns streaming off was the last frame received; the
\* turn that was in flight goes on sending its response as chunks
C27_Witness ==
    /\ ev.kind = "config" /\ ~config.streamingEnabled
    /\ \E t \in 1..Len(turns) :
          /\ turns[t].pc = "stream" /\ turns[t].cfg.streamingEnabled
          /\ Len(turns[t].tools) = 2
          /\ Len(OfType(turns[t].sent, "chunk")) = 2

\* ------------------------------------------------------------------------
\* Properties of the sockets of the client
\* ------------------------------------------------------------------------
\* the sockets that are not closed yet
LiveSockets == {n \in 1..Len(socks) : Live(socks[n])}

\* C28: at most one socket of the client is connecting or open (or between
\* its error and its close event), at most one reconnect timer is pending,
\* and no timer is pending while a socket is live; the live socket is the
\* one created last.
C28_OneSocketOneTimer ==
    /\ Cardinality(LiveSockets) <= 1
    /\ Len(timers) <= 1
    /\ LiveSockets # {} => timers = <<>> /\ LiveSockets = {Len(socks)}

\* the third socket is open after two reconnects, and no timer is pending
C28_Witness ==
    /\ Len(socks) = 3 /\ socks[3] = "open" /\ socks[1] = "closed" /\ socks[2] = "closed"
    /\ scheduled = 2 /\ timers = <<>>

TwoPercents == <<"1", "0", "%", SP, "+", SP, "2", "0", "%">>

\* C30: when the calculator of the client has handed code to eval, no
\* percent sign of the sanitized expression is left in that code: each has
\* become a division by 100; for "10% + 20%" the result is 0.3.
C30_EveryPercentReplaced ==
    (CalculatorCalled /\ local.lastEval.kind # "none") =>
        /\ "%" \notin Range(EvalCode(local.content))
        /\ local.content = TwoPercents =>
              local.results["calculator"].result = <<"0", ".", "3">>

ClearStep ==
    /\ local.queue # <<>> /\ Head(local.queue) = ClearClick
    /\ local'.queue = Tail(local.queue)

\* C21: when clearChat has run, the message history is empty, the message
\* count, the last latency and the tools-used count are 0, and the session
\* duration is counted from that moment.
C21_ClearResetsMetrics ==
    [][ClearStep =>
          /\ local'.messages = <<>>
          /\ local'.metrics.messageCount = 0
          /\ local'.metrics.latency = 0
          /\ local'.metrics.toolsUsed = 0
          /\ local'.age = 0]_vars

\* the agent messages of the history
AgentMessages == SelectSeq(local.messages, LAMBDA m : m.type = "agent")
\* those that finalizeStreamingMessage has made: they carry no toolsUsed
Finalised == SelectSeq(AgentMessages, LAMBDA m : "toolsUsed" \notin DOMAIN m)

\* C22: the content of every message the client has finalised from chunks
\* is the whole response of one streamed turn of the server.
C22_FinalisedIsOneResponse ==
    \A n \in 1..Len(Finalised) :
        \E t \in 1..Len(turns) :
            /\ turns[t].pc \in {"stream", "done"} /\ Streamed(t)
            /\ Finalised[n].content = turns[t].response

\* every message the user has sent has been answered: no local turn is
\* running, every frame sent has its turn, every turn is finished and every
\* frame of the server has been handled; the history was not cleared
Answered ==
    /\ local.pc = "idle"
    /\ local.handled # <<>>
    /\ UserCount(local) = Len(local.handled)
    /\ Len(turns) = Len(local.wire)
    /\ \A t \in 1..Len(turns) : Done(t)
    /\ down = <<>>
    /\ local.wire # <<>> => ClientOpen

\* C23: when every message of the user has been answered, the history has
\* one agent message per message of the user and messageCount is their
\* number, whether the answers came as chunks, as a response frame or from
\* the local simulation.
C23_OneAgentMessagePerTurn ==
    Answered =>
        /\ Len(AgentMessages) = Len(local.handled)
        /\ local.metrics.messageCount = Len(local.handled)

\* ------------------------------------------------------------------------
\* Progress of the turns
\* ------------------------------------------------------------------------
\* turn t is over and the last frame it sent is its terminal status
Ended(t) ==
    /\ t <= Len(turns)
    /\ turns[t].pc \in {"done", "failed"}
    /\ turns[t].sent # <<>>
    /\ \/ IsStatus(Last(turns[t].sent), "listening")
       \/ IsStatus(Last(turns[t].sent), "ready")

\* C26: on a connection that stays open, with every timer firing and every
\* tool but the weather request returning, there comes a moment from which
\* every message frame received has got its terminal status frame
\* ("listening", or "ready" after an error) or waits for its own weather
\* request. A turn whose weather request returns is therefore completed, and
\* a weather request that never returns holds back its own turn only.
C26_EveryTurnEnds ==
    \A t \in 1..MaxTurns :
        <>[](t <= Len(turns) => Ended(t) \/ WeatherPending(t))

\* the first turn waits for the weather and a turn received later is over
C26_Witness ==
    /\ Len(turns) >= 2
    /\ WeatherPending(1)
    /\ Ended(2)
    /\ turns[2].pc = "done"

====
